---- MODULE Spec2Model ----
(***************************************************************************)
(* A model of the routing, credential-rotation, provider-adaptation,       *)
(* streaming-translation and error-classification core of the LLM proxy.   *)
(*                                                                         *)
(* Conventions.                                                            *)
(*  - Python dicts are TLA+ functions; d.get(k, default) is Get(d,k,dflt). *)
(*  - A string that the code formats or searches is a sequence of tokens:  *)
(*    f"prefix: {e}" is <<prefix>> \o Str(e), and `"x" in s` is            *)
(*    Contains(s, "x").  The source's Chinese literals are written as      *)
(*    ASCII tokens, the original quoted in the comment beside each.        *)
(*  - A model id is the sequence of its '/'-separated segments:            *)
(*    "acme/gpt-x" is <<"acme", "gpt-x">>.                                 *)
(*  - An exception is a record: its class name, the classes it is an       *)
(*    instance of, its text (str(e)) and the attributes handlers read.     *)
(***************************************************************************)
EXTENDS Integers, Sequences, FiniteSets, TLC

VARIABLES
    \* ---- StreamTranslator (generate_stream) ----
    st_variant,     \* which generate_stream: "service" (service.py) or "app" (app.py)
    st_chunks,      \* the chunks the upstream sequence delivers, in order
    st_exc,         \* what the upstream sequence raises after them (NoExc: ends normally)
    st_pulled,      \* number of chunks pulled from upstream so far
    st_pc,          \* where the generator is suspended
    st_frames,      \* the frames yielded so far, in order
    \* ---- ErrorClassifier and the non-streaming request ----
    cl_in,          \* the exception last handed to map_litellm_error_to_http
    cl_out,         \* the triple it returned
    rq_variant,     \* which endpoint: "service" (service.py) or "app" (app.py)
    rq_pc,          \* stage of the non-streaming request
    rq_exc,         \* the exception originally raised (NoExc: none)
    rq_response,    \* the HTTP response sent (NoValue: none yet)
    \* ---- CredentialRotator (ProviderManager._get_next_key_index) ----
    pm_key_indices, \* self._key_indices: provider -> <<cursor>> (<<>>: no entry yet)
    pm_lock,        \* self._lock: the set of threads holding it ({}: free)
    pm_updates,     \* per provider, how many times its cursor has been written
    pm_history,     \* per provider, the selections returned, in order of return
    th_pc,          \* per thread, its position in _get_next_key_index
    th_provider,    \* per thread, the provider argument of its call
    th_current,     \* per thread, its local current_index
    th_seen,        \* per thread, pm_updates[provider] when it read the cursor
    th_calls,       \* per thread, the calls it has completed
    \* ---- ProviderAdapter (providers/*.py) ----
    ad_kind,        \* the adapter class
    ad_provider,    \* provider_name given to its constructor
    ad_payload,     \* the payload given to prepare_litellm_params
    ad_route,       \* the model_route given to prepare_litellm_params
    os_environ,         \* os.environ, as far as the configuration refers to it
    ad_pc,          \* "new", "ready" (constructed), "done", "failed"
    ad_keys,        \* self._keys
    ad_credentials, \* what the adapter injected on this call
    ad_result,      \* the final parameter map, or the exception raised
    \* ---- ModelRouter and parameter preparation (_prepare_litellm_params) ----
    rt_payload,       \* the request payload
    rt_pc,            \* "start", "valid", "routed", "handler", "done", "failed"
    rt_provider_name, \* provider_name ("" before it is computed)
    rt_model_route,   \* model_route
    rt_litellm_model, \* litellm_model (<<>> before it is computed)
    rt_result,        \* final_params, or the exception raised
    \* ---- ConfigManager (app/config.py) and the request that reads it ----
    fs_content,       \* the content of the configuration file
    fs_mtime,         \* its modification time
    cm_config,        \* self.config: the content it was built from
    cm_file_mtime,    \* self._file_mtime
    cm_lru,           \* the lru_cache of _get_model_route_cached
    cr_model,         \* request.model of the request in the handler
    cr_pc,            \* "idle", "resolved", "done", "failed"
    cr_litellm_model, \* litellm_model (<<>> before it is computed)
    cr_provider,      \* provider ("" before it is computed)
    cr_exc,           \* the exception that ended the request (NoExc: none)
    \* ---- ProviderManager: get_provider and get_provider_config, one caller ----
    mg_custom,        \* config["custom_model_routes"] of the configuration in use
    mg_key_indices,   \* self._key_indices: provider -> <<cursor>> (<<>>: no entry yet)
    mg_op,            \* the last call: "none", "get_provider", "get_provider_config"
    mg_provider,      \* its provider argument
    mg_handler,       \* what get_provider came to: the class and the exception raised
    mg_mapped,        \* what get_provider_config returned
    mg_selected,      \* the index it selected, <<key_index>> (<<>>: it selected none)
    mg_calls,         \* the calls made so far
    mg_total_keys,    \* total_keys of the last direct _get_next_key_index call
    \* ---- the consumer of a stream, and the upstream sequence behind it ----
    sc_consumer,      \* "reading", "cancelled" (its task was cancelled), "closed"
    sc_raised,        \* what closing the generator raised (NoExc: nothing)
    sc_upstream,      \* "open", or "cancelled": its pending read was cancelled
    \* ---- the ConfigCache and a lookup of the ConfigManager under way ----
    cm_cache,         \* ConfigCache._cache: key -> cached value
    lk_pc,            \* "idle", "hashed", "missed", "returned", "failed"
    lk_op,            \* the method called
    lk_model,         \* its model_name argument
    lk_provider,      \* its provider argument
    lk_config_hash,   \* get_model_route's local config_hash
    lk_result,        \* the local result a cache lookup computed
    lk_value          \* what the call returned

st_vars == <<st_variant, st_chunks, st_exc, st_pulled, st_pc, st_frames>>
cl_vars == <<cl_in, cl_out>>
rq_vars == <<rq_variant, rq_pc, rq_exc, rq_response>>

pm_vars == <<pm_key_indices, pm_lock, pm_updates, pm_history,
             th_pc, th_provider, th_current, th_seen, th_calls>>

ad_vars == <<ad_kind, ad_provider, ad_payload, ad_route, os_environ, ad_pc,
             ad_keys, ad_credentials, ad_result>>

rt_vars == <<rt_payload, rt_pc, rt_provider_name, rt_model_route,
             rt_litellm_model, rt_result>>

cm_vars == <<fs_content, fs_mtime, cm_config, cm_file_mtime, cm_lru,
             cr_model, cr_pc, cr_litellm_model, cr_provider, cr_exc>>

mg_vars == <<mg_custom, mg_key_indices, mg_op, mg_provider, mg_handler,
             mg_mapped, mg_selected, mg_calls, mg_total_keys>>

\* the adapter's variables other than the environment
ad_own == <<ad_kind, ad_provider, ad_payload, ad_route, ad_pc,
            ad_keys, ad_credentials, ad_result>>

sc_vars == <<sc_consumer, sc_raised, sc_upstream>>

lk_vars == <<cm_cache, lk_pc, lk_op, lk_model, lk_provider, lk_config_hash,
             lk_result, lk_value>>

vars == <<st_vars, cl_vars, rq_vars, pm_vars, ad_vars, rt_vars, cm_vars, mg_vars,
          sc_vars, lk_vars>>

\* what an action of one component leaves alone: the other components' state
StreamOnly == UNCHANGED <<cl_vars, rq_vars, pm_vars, ad_vars, rt_vars, cm_vars, mg_vars, sc_vars,
        lk_vars>>
ErrOnly == UNCHANGED <<st_vars, pm_vars, ad_vars, rt_vars, cm_vars, mg_vars, sc_vars,
        lk_vars>>
RotatorOnly == UNCHANGED <<st_vars, cl_vars, rq_vars, ad_vars, rt_vars, cm_vars, mg_vars, sc_vars,
        lk_vars>>
AdapterOnly == UNCHANGED <<st_vars, cl_vars, rq_vars, pm_vars, rt_vars, cm_vars, mg_vars, sc_vars,
        lk_vars>>
RouteOnly == UNCHANGED <<st_vars, cl_vars, rq_vars, pm_vars, ad_vars, cm_vars, mg_vars, sc_vars,
        lk_vars>>
CfgOnly == UNCHANGED <<st_vars, cl_vars, rq_vars, pm_vars, ad_vars, rt_vars, mg_vars, sc_vars,
        lk_vars>>
ManagerOnly == UNCHANGED <<st_vars, cl_vars, rq_vars, pm_vars, ad_own, rt_vars, cm_vars,
                           sc_vars, lk_vars>>
ConsumerOnly == UNCHANGED <<cl_vars, rq_vars, pm_vars, ad_vars, rt_vars, cm_vars, mg_vars,
                            lk_vars>>
LookupOnly == UNCHANGED <<st_vars, cl_vars, rq_vars, pm_vars, ad_vars, rt_vars, mg_vars,
                          sc_vars, cr_model, cr_pc, cr_litellm_model, cr_provider, cr_exc>>

NoValue == "None"

\* d.get(k, dflt)
Get(d, k, dflt) == IF k \in DOMAIN d THEN d[k] ELSE dflt

\* {**a, **b} and a.update(b): where both have a key, b's entry wins
Merge(a, b) ==
    [k \in DOMAIN a \cup DOMAIN b |-> IF k \in DOMAIN b THEN b[k] ELSE a[k]]

\* a dict without the given keys
Without(d, keys) == [k \in DOMAIN d \ keys |-> d[k]]

\* `tok in msg` for the literal substrings the code searches for
Contains(msg, tok) == \E i \in 1..Len(msg) : msg[i] = tok

\* whether `part` occurs in `msg` as a contiguous run of tokens
ContainsText(msg, part) ==
    \E i \in 0..(Len(msg) - Len(part)) :
        \A j \in 1..Len(part) : msg[i + j] = part[j]

(***************************************************************************)
(* Exceptions                                                              *)
(***************************************************************************)
NoExc == [name |-> "NoExc", bases |-> {}, msg |-> <<>>,
          status_code |-> 0, code |-> NoValue]

Exc(name, bases, msg) ==
    [name |-> name, bases |-> bases \cup {name, "Exception", "BaseException"},
     msg |-> msg, status_code |-> 0, code |-> NoValue]

\* ProxyError(message, status_code, error_type, param, code): app/errors.py 65-81
ProxyExc(name, msg, status, code) ==
    [name |-> name, bases |-> {name, "ProxyError", "Exception", "BaseException"},
     msg |-> msg, status_code |-> status, code |-> code]

\* fastapi.HTTPException(status_code, detail)
HTTPExc(status, detail) ==
    [name |-> "HTTPException", bases |-> {"HTTPException", "Exception", "BaseException"},
     msg |-> detail, status_code |-> status, code |-> NoValue]

\* asyncio.CancelledError / GeneratorExit: BaseException but not Exception
BaseExc(name) ==
    [name |-> name, bases |-> {name, "BaseException"}, msg |-> <<>>,
     status_code |-> 0, code |-> NoValue]

IsInstance(e, cls) == cls \in e.bases
Str(e) == e.msg

\* "未在配置文件中定义" (not defined in the configuration file)
TokNotConfigured == "NOT_DEFINED_IN_CONFIG_FILE"
\* "模型ID不能为空" (model id must not be empty)
TokEmptyModelId == "MODEL_ID_MUST_NOT_BE_EMPTY"
\* "无法从模型" (cannot, from model) ... "中解析提供商" (resolve the provider)
TokCannotFromModel == "CANNOT_FROM_MODEL"
TokParseProvider == "RESOLVE_PROVIDER"

\* the text an internal failure carries (a stack detail, a secret)
InternalText == <<"internal-detail">>

\* app/router.py 37-39: f"模型 '{model_id}' 未在配置文件中定义，请在 config.yaml 中添加相应的模型配置"
ModelNotConfiguredError(model_id) ==
    Exc("ValueError", {}, <<"model ">> \o model_id \o <<TokNotConfigured, "add it to config.yaml">>)

\* app/router.py 26: ValueError("模型ID不能为空")
EmptyModelIdError == Exc("ValueError", {}, <<TokEmptyModelId>>)

\* app/router.py 57: ValueError(f"无法从模型 '{model_id}' 中解析提供商")
ProviderParseError(model_id) ==
    Exc("ValueError", {}, <<TokCannotFromModel>> \o model_id \o <<TokParseProvider>>)

UpstreamNames ==
    {"BadRequestError", "AuthenticationError", "NotFoundError", "RateLimitError",
     "ContextWindowExceededError", "APIConnectionError", "APITimeoutError",
     "ServiceUnavailableError", "InternalServerError", "APIError"}

\* The upstream exception classes are the ten of app/errors.py 32-58, each a
\* direct subclass of Exception as the module's own fallback declares them.
UpstreamExcs == { Exc(n, {}, <<"upstream said no">>) : n \in UpstreamNames }

\* A class created elsewhere that only shares the name (the classifier's
\* `or error_type == "..."` arm): its bases do not hold the classifier's class.
NameOnlyExcs ==
    { [name |-> n, bases |-> {"Exception", "BaseException"}, msg |-> <<"upstream said no">>,
       status_code |-> 0, code |-> NoValue] : n \in {"RateLimitError", "APITimeoutError"} }

LocalExcs ==
    { ModelNotConfiguredError(<<"nope">>), EmptyModelIdError,
      ProviderParseError(<<"nope">>), Exc("ValueError", {}, InternalText) }

ProxyExcs ==
    { ProxyExc("ModelNotFoundError", <<"model ", "nope", " unsupported">>, 400, "MODEL_NOT_FOUND"),
      ProxyExc("ConfigurationError", <<"configuration error: ", "x">>, 500, "CONFIGURATION_ERROR"),
      ProxyExc("ProxyError", <<"proxy failed">>, 500, NoValue) }

OtherKnownExcs ==
    { HTTPExc(404, <<"no such route">>), HTTPExc(503, <<"busy">>),
      Exc("RequestValidationError", {}, <<"body -> model", ": ", "field required">>) }

UnknownExcs ==
    { Exc("RuntimeError", {}, InternalText), Exc("KeyError", {}, InternalText),
      Exc("TypeError", {}, InternalText) }

Exceptions ==
    UpstreamExcs \cup NameOnlyExcs \cup LocalExcs \cup ProxyExcs \cup OtherKnownExcs
        \cup UnknownExcs

(***************************************************************************)
(* ErrorClassifier: map_litellm_error_to_http                              *)
(***************************************************************************)
\* isinstance(error, X) or error_type == "X"
IsUpstream(error, cls) == IsInstance(error, cls) \/ error.name = cls

\* The isinstance/elif chain of the upstream classes, in source order:
\* <<class, status, error code, message prefix>>.  The prefixes stand for
\* "请求参数无效: ", "API密钥认证失败: ", "资源未找到: ", "请求频率限制: ",
\* "上下文长度超出限制: ", "上游服务连接失败: ", "上游服务响应超时: ",
\* "服务暂时不可用: ", "上游服务内部错误: ", "API调用失败: ".
UpstreamArms_RateLimitAs500 ==
    << <<"BadRequestError", 400, "BAD_REQUEST", "invalid request parameters: ">>,
       <<"AuthenticationError", 401, "AUTHENTICATION_ERROR", "API key authentication failed: ">>,
       <<"NotFoundError", 404, "NOT_FOUND", "resource not found: ">>,
       <<"RateLimitError", 500, "API_ERROR", "API call failed: ">>,
       <<"ContextWindowExceededError", 400, "CONTEXT_LENGTH_EXCEEDED", "context length exceeded: ">>,
       <<"APIConnectionError", 502, "UPSTREAM_CONNECTION_ERROR", "upstream connection failed: ">>,
       <<"APITimeoutError", 504, "UPSTREAM_TIMEOUT", "upstream timed out: ">>,
       <<"ServiceUnavailableError", 503, "SERVICE_UNAVAILABLE", "service temporarily unavailable: ">>,
       <<"InternalServerError", 500, "UPSTREAM_INTERNAL_ERROR", "upstream internal error: ">>,
       <<"APIError", 500, "API_ERROR", "API call failed: ">> >>

UpstreamArms ==
    << <<"BadRequestError", 400, "BAD_REQUEST", "invalid request parameters: ">>,
       <<"AuthenticationError", 401, "AUTHENTICATION_ERROR", "API key authentication failed: ">>,
       <<"NotFoundError", 404, "NOT_FOUND", "resource not found: ">>,
       <<"RateLimitError", 429, "RATE_LIMIT_EXCEEDED", "request rate limited: ">>,
       <<"ContextWindowExceededError", 400, "CONTEXT_LENGTH_EXCEEDED", "context length exceeded: ">>,
       <<"APIConnectionError", 502, "UPSTREAM_CONNECTION_ERROR", "upstream connection failed: ">>,
       <<"APITimeoutError", 504, "UPSTREAM_TIMEOUT", "upstream timed out: ">>,
       <<"ServiceUnavailableError", 503, "SERVICE_UNAVAILABLE", "service temporarily unavailable: ">>,
       <<"InternalServerError", 500, "UPSTREAM_INTERNAL_ERROR", "upstream internal error: ">>,
       <<"APIError", 500, "API_ERROR", "API call failed: ">> >>

\* the arms of the chain that `error` satisfies
MatchingArms(error) == { i \in 1..Len(UpstreamArms) : IsUpstream(error, UpstreamArms[i][1]) }

\* the first of them: the arm an if/elif chain takes
FirstArm(error) == CHOOSE i \in MatchingArms(error) : \A j \in MatchingArms(error) : i <= j

map_litellm_error_to_http(error) ==
    LET error_message == Str(error)
    IN  IF IsInstance(error, "ValueError") /\ Contains(error_message, TokNotConfigured)
        THEN <<400, "MODEL_NOT_CONFIGURED", error_message>>
        ELSE IF IsInstance(error, "ValueError") /\ Contains(error_message, TokEmptyModelId)
        THEN <<400, "INVALID_MODEL_ID", error_message>>
        ELSE IF IsInstance(error, "ValueError")
                /\ Contains(error_message, TokCannotFromModel)
                /\ Contains(error_message, TokParseProvider)
        THEN <<400, "PROVIDER_PARSE_ERROR", error_message>>
        ELSE IF MatchingArms(error) # {}
        THEN LET arm == UpstreamArms[FirstArm(error)]
             IN  <<arm[2], arm[3], <<arm[4]>> \o error_message>>
        ELSE IF IsInstance(error, "ProxyError")
        THEN <<error.status_code,
               IF error.code = NoValue THEN "PROXY_ERROR" ELSE error.code,
               error.msg>>
        ELSE IF IsInstance(error, "HTTPException")
        THEN <<error.status_code, "HTTP_EXCEPTION", error.msg>>
        \* "请求参数验证失败: " followed by the joined "field: msg" details
        ELSE IF IsInstance(error, "RequestValidationError")
        THEN <<422, "VALIDATION_ERROR", <<"request validation failed: ">> \o error_message>>
        \* "内部服务器错误: "
        ELSE <<500, "INTERNAL_ERROR", <<"internal server error: ">> \o error_message>>

(***************************************************************************)
(* StreamTranslator: generate_stream                                       *)
(*                                                                         *)
(*     try:    async for chunk in litellm_stream: ... yield data frame     *)
(*     except Exception as e:                     ... yield error frame    *)
(*     finally:                                       yield "data: [DONE]" *)
(*                                                                         *)
(* One action is one resumption of the generator: it runs from where the   *)
(* generator is suspended to its next yield (or to its end).               *)
(***************************************************************************)
MaxChunks == 2
ChunkIds == {"c1", "c2"}
OriginalModel == <<"gpt-x">>
BackendModel == <<"acme", "model-1">>
RequestId == "req-1"

\* chunk.model_dump() of an upstream chunk: it names the backend's model
Chunk(id) == [id |-> id, model |-> BackendModel]

Done == [kind |-> "done"]

\* a slip: the frame keeps the model the upstream chunk names
DataFrame_BackendModel(chunk, original_model) ==
    [kind |-> "data", id |-> chunk.id, model |-> chunk.model]

\* chunk_dict = chunk.model_dump(); chunk_dict["model"] = original_model;
\* yield f"data: {json.dumps(chunk_dict)}\n\n"
DataFrame(chunk, original_model) ==
    [kind |-> "data", id |-> chunk.id, model |-> original_model]

\* service.py 268-271:
\* {"error": {"message": f"流处理错误: {e}", "type": "STREAM_ERROR"}}
ServiceErrorFrame(e) ==
    [kind |-> "error", code |-> NoValue, type |-> "STREAM_ERROR",
     message |-> <<"stream processing error: ">> \o Str(e)]

\* app/errors.py handle_streaming_error: the classifier's code and message
handle_streaming_error(error, original_model, request_id) ==
    LET triple == map_litellm_error_to_http(error)
    IN  [kind |-> "error", code |-> triple[2], type |-> "api_error",
         message |-> triple[3]]

ErrorFrame(variant, e) ==
    IF variant = "app" THEN handle_streaming_error(e, OriginalModel, RequestId)
    ELSE ServiceErrorFrame(e)

\* a slip: the finally clause yields nothing
FinallyFrames_Empty == <<>>

\* the finally clause: yield "data: [DONE]\n\n"
FinallyFrames == <<Done>>

\* the except clause: one error frame
ExceptFrames(variant, e) == <<ErrorFrame(variant, e)>>

\* what the upstream sequence may raise mid-stream
StreamExcs ==
    { Exc("RateLimitError", {}, <<"upstream said no">>),
      Exc("APITimeoutError", {}, <<"upstream said no">>),
      Exc("RuntimeError", {}, InternalText),
      ModelNotConfiguredError(<<"nope">>),
      BaseExc("CancelledError") }

\* sequences over S of length at most n
SeqsUpTo(S, n) == UNION { [1..k -> S] : k \in 0..n }

\* async for: the next chunk arrives; the loop body yields its data frame
StreamNextChunk ==
    /\ StreamOnly
    /\ st_pc = "try"
    /\ st_pulled < Len(st_chunks)
    /\ st_pulled' = st_pulled + 1
    /\ st_frames' = Append(st_frames, DataFrame(st_chunks[st_pulled + 1], OriginalModel))
    /\ UNCHANGED <<st_variant, st_chunks, st_exc, st_pc>>

\* async for: the upstream sequence ends; finally yields the sentinel
StreamUpstreamEnd ==
    /\ StreamOnly
    /\ st_pc = "try"
    /\ st_pulled = Len(st_chunks)
    /\ st_exc = NoExc
    /\ st_frames' = st_frames \o FinallyFrames
    /\ st_pc' = "finally"
    /\ UNCHANGED <<st_variant, st_chunks, st_exc, st_pulled>>

\* async for: the upstream sequence raises; `except Exception` yields the
\* error frame
StreamUpstreamRaise ==
    /\ StreamOnly
    /\ st_pc = "try"
    /\ st_pulled = Len(st_chunks)
    /\ st_exc # NoExc
    /\ IsInstance(st_exc, "Exception")
    /\ st_frames' = st_frames \o ExceptFrames(st_variant, st_exc)
    /\ st_pc' = "except"
    /\ UNCHANGED <<st_variant, st_chunks, st_exc, st_pulled>>

\* async for: the upstream sequence raises something `except Exception` does
\* not catch (asyncio.CancelledError): only finally runs, and yields
StreamUpstreamRaiseBase ==
    /\ StreamOnly
    /\ st_pc = "try"
    /\ st_pulled = Len(st_chunks)
    /\ st_exc # NoExc
    /\ ~IsInstance(st_exc, "Exception")
    /\ st_frames' = st_frames \o FinallyFrames
    /\ st_pc' = "finally"
    /\ UNCHANGED <<st_variant, st_chunks, st_exc, st_pulled>>

\* resumed after the error frame: the except clause ends, finally yields
StreamAfterError ==
    /\ StreamOnly
    /\ st_pc = "except"
    /\ st_frames' = st_frames \o FinallyFrames
    /\ st_pc' = "finally"
    /\ UNCHANGED <<st_variant, st_chunks, st_exc, st_pulled>>

\* resumed after the sentinel: the generator returns
StreamClose ==
    /\ StreamOnly
    /\ st_pc = "finally"
    /\ st_pc' = "closed"
    /\ UNCHANGED <<st_variant, st_chunks, st_exc, st_pulled, st_frames>>

(***************************************************************************)
(* The consumer of the stream stops reading                                *)
(*                                                                         *)
(* The generator is suspended either inside `async for` (awaiting the next *)
(* upstream chunk, on behalf of the consumer's pending read) or at one of  *)
(* its yields (the consumer holds the frame).  None of the three           *)
(* generators closes `litellm_stream`; asyncio delivers a cancellation at  *)
(* the innermost pending await and a close (aclose, or the event loop's    *)
(* finalizer of an abandoned generator) as GeneratorExit at the yield.     *)
(***************************************************************************)

\* what Python raises when a generator answers GeneratorExit with a yield
IgnoredExit == Exc("RuntimeError", {}, <<"async generator ignored GeneratorExit">>)

\* the consumer's task is cancelled while the generator awaits the next chunk:
\* CancelledError rises out of the upstream read, passes `except Exception`,
\* and finally yields the sentinel to the consumer
ConsumerCancelAwaiting ==
    /\ ConsumerOnly
    /\ st_pc = "try"
    /\ sc_consumer = "reading"
    /\ sc_consumer' = "cancelled"
    /\ sc_upstream' = "cancelled"
    /\ st_frames' = st_frames \o FinallyFrames
    /\ st_pc' = "finally"
    /\ UNCHANGED <<st_variant, st_chunks, st_exc, st_pulled, sc_raised>>

\* the consumer stops (cancelled, or closing the stream) while the generator
\* is suspended at the yield of a data frame or of the error frame: the
\* generator is closed with GeneratorExit, finally yields, and the close
\* raises; the yielded sentinel goes to nobody
ConsumerCloseAtYield ==
    /\ ConsumerOnly
    /\ \/ st_pc = "try" /\ st_pulled >= 1
       \/ st_pc = "except"
    /\ sc_consumer = "reading"
    /\ sc_consumer' \in {"cancelled", "closed"}
    /\ sc_raised' = IgnoredExit
    /\ st_pc' = "ignored_exit"
    /\ UNCHANGED <<st_variant, st_chunks, st_exc, st_pulled, st_frames, sc_upstream>>

\* the consumer stops while the generator is suspended at the sentinel's
\* yield: GeneratorExit leaves the finally clause and the generator ends
ConsumerCloseAtSentinel ==
    /\ ConsumerOnly
    /\ st_pc = "finally"
    /\ sc_consumer = "reading"
    /\ sc_consumer' \in {"cancelled", "closed"}
    /\ st_pc' = "closed"
    /\ UNCHANGED <<st_variant, st_chunks, st_exc, st_pulled, st_frames, sc_raised,
                   sc_upstream>>

(***************************************************************************)
(* The non-streaming chat-completion request and its error responses       *)
(*                                                                         *)
(* "service": ExternalLLMService.handle_chat_completion, whose exceptions  *)
(*            reach handle_service_error (app/common/errors.py);           *)
(* "app":     app.py chat_completions, whose exceptions reach              *)
(*            handle_proxy_error (app/errors.py).                          *)
(***************************************************************************)
\* ServiceError(message, error_code): app/services/base.py 13-24
ServiceError(message, error_code) ==
    [name |-> "ServiceError", bases |-> {"ServiceError", "Exception", "BaseException"},
     msg |-> message, status_code |-> 0, code |-> error_code]

\* json.JSONDecodeError is a ValueError
JSONDecodeError ==
    Exc("JSONDecodeError", {"ValueError"}, <<"Expecting value: line 1 column 1 (char 0)">>)

\* error codes for which exc.error_code.startswith("VALIDATION") holds
StartsWithValidation(error_code) ==
    error_code \in {"VALIDATION_ERROR", "VALIDATION_JSON_ERROR", "VALIDATION_REQUEST_ERROR"}

Stages == <<"parse", "validate", "prepare", "call", "convert">>

StageAfter(stage) ==
    CASE stage = "parse" -> "validate"
      [] stage = "validate" -> "prepare"
      [] stage = "prepare" -> "call"
      [] stage = "call" -> "convert"
      [] stage = "convert" -> "done"

\* what each stage of the service's handler can raise inside its try block
ServiceStageExcs(stage) ==
    CASE stage = "parse" -> {JSONDecodeError}
      \* "请求体中缺少 'model' 字段" (the request body lacks the 'model' field)
      [] stage = "validate" -> {ServiceError(<<"request body lacks the 'model' field">>, "VALIDATION_ERROR")}
      [] stage = "prepare" ->
            {ServiceError(<<"Request body must contain 'model' and 'messages'">>, "VALIDATION_REQUEST_ERROR"),
             Exc("ValueError", {}, <<"No API keys configured for provider: ", "acme">>),
             Exc("TypeError", {}, InternalText)}
      [] stage = "call" -> UpstreamExcs \cup UnknownExcs
      \* "响应格式转换失败" (response format conversion failed)
      [] stage = "convert" -> {ServiceError(<<"response format conversion failed">>, "RESPONSE_CONVERSION_ERROR")}

\* what each stage of app.py's endpoint can raise; convert_litellm_response
\* catches everything itself
AppStageExcs(stage) ==
    CASE stage = "parse" -> {Exc("RequestValidationError", {}, <<"body -> model", ": ", "field required">>)}
      [] stage = "validate" -> {EmptyModelIdError}
      [] stage = "prepare" -> {ModelNotConfiguredError(<<"nope">>), ProviderParseError(<<"nope">>)}
      [] stage = "call" -> UpstreamExcs \cup UnknownExcs \cup ProxyExcs
      [] stage = "convert" -> {}

StageExcs(variant, stage) ==
    IF variant = "service" THEN ServiceStageExcs(stage) ELSE AppStageExcs(stage)

\* service.py 137-149: what the handler's except clauses raise in place of e
\* "无效的JSON格式" (invalid JSON)
HandlerReraise(e) ==
    IF IsInstance(e, "JSONDecodeError")
    THEN ServiceError(<<"invalid JSON">>, "VALIDATION_JSON_ERROR")
    ELSE ServiceError(Str(e), "CHAT_COMPLETION_ERROR")

\* app/common/errors.py handle_service_error
handle_service_error(exc) ==
    [status |-> IF StartsWithValidation(exc.code) THEN 400 ELSE 500,
     error |-> [message |-> exc.msg, type |-> exc.code, code |-> NoValue]]

\* "代理服务发生内部错误，请检查日志了解详情。"
ProxyInternalMessage == <<"the proxy hit an internal error, see the logs">>

\* app/errors.py handle_proxy_error
handle_proxy_error(exc) ==
    IF IsInstance(exc, "ProxyError")
    \* exc.to_error_response(); its type and param attributes are not modelled
    THEN [status |-> exc.status_code,
          error |-> [message |-> exc.msg, code |-> exc.code]]
    ELSE [status |-> 500,
          error |-> [message |-> ProxyInternalMessage, type |-> "internal_server_error",
                     code |-> "proxy_internal_error"]]

\* the response a failing request ends with
ErrorResponse(variant, e) ==
    IF variant = "service" THEN handle_service_error(HandlerReraise(e))
    ELSE handle_proxy_error(e)

\* one stage of the request completes
RequestStageOk ==
    /\ ErrOnly
    /\ rq_pc \in {"parse", "validate", "prepare", "call", "convert"}
    /\ rq_pc' = StageAfter(rq_pc)
    /\ rq_response' = IF rq_pc = "convert" THEN [status |-> 200, error |-> NoValue]
                      ELSE rq_response
    /\ UNCHANGED <<cl_vars, rq_variant, rq_exc>>

\* one stage of the request raises; the handler chain answers
RequestStageFails ==
    /\ ErrOnly
    /\ rq_pc \in {"parse", "validate", "prepare", "call", "convert"}
    /\ \E e \in StageExcs(rq_variant, rq_pc) :
          /\ rq_exc' = e
          /\ rq_response' = ErrorResponse(rq_variant, e)
    /\ rq_pc' = "failed"
    /\ UNCHANGED <<cl_vars, rq_variant>>

\* the classifier is applied to an exception
Classify ==
    /\ ErrOnly
    /\ \E e \in Exceptions \cup {Exc("GatewayTimeout", {"APIConnectionError", "APITimeoutError"}, <<"upstream said no">>)} :
          /\ cl_in' = e
          /\ cl_out' = map_litellm_error_to_http(e)
    /\ UNCHANGED rq_vars

(***************************************************************************)
(* CredentialRotator: ProviderManager._get_next_key_index                  *)
(*                                                                         *)
(*     with self._lock:                                                    *)
(*         if provider not in self._key_indices:                           *)
(*             self._key_indices[provider] = 0                             *)
(*         current_index = self._key_indices[provider]                     *)
(*         self._key_indices[provider] = (current_index + 1) % total_keys  *)
(*         return current_index                                            *)
(*                                                                         *)
(* Each statement is a step of the calling thread, so that threads         *)
(* interleave wherever the lock lets them.                                 *)
(***************************************************************************)
NThreads == 2
MaxCalls == 4
Threads == 1..NThreads

\* the providers of the configuration and the number of "key*" entries each
\* has under model_keys (len(available_keys)), fixed while the rotator runs
Providers == {"solo", "acme", "tri"}
KeyCount(provider) ==
    CASE provider = "solo" -> 1
      [] provider = "acme" -> 2
      [] provider = "tri" -> 3

\* a slip: the lock is not taken (every thread enters at once)
LockAvailable_NoLock(lock) == TRUE

\* threading.Lock: acquire succeeds only while no thread holds it
LockAvailable(lock) == lock = {}

\* a slip: the cursor is not advanced
NextCursor_Stuck(current_index, total_keys) == current_index

\* (current_index + 1) % total_keys
NextCursor(current_index, total_keys) == (current_index + 1) % total_keys

\* the calls made so far by all threads, those under way included
RECURSIVE CallsMade(_)
CallsMade(S) ==
    IF S = {} THEN 0
    ELSE LET t == CHOOSE x \in S : TRUE
         IN  th_calls[t] + (IF th_pc[t] = "idle" THEN 0 ELSE 1) + CallsMade(S \ {t})

\* a thread calls _get_next_key_index(provider, total_keys): `with self._lock`
SelectAcquire(t, provider) ==
    /\ RotatorOnly
    /\ th_pc[t] = "idle"
    /\ CallsMade(Threads) < MaxCalls
    /\ LockAvailable(pm_lock)
    /\ pm_lock' = pm_lock \cup {t}
    /\ th_pc' = [th_pc EXCEPT ![t] = "locked"]
    /\ th_provider' = [th_provider EXCEPT ![t] = provider]
    /\ UNCHANGED <<pm_key_indices, pm_updates, pm_history, th_current, th_seen, th_calls>>

\* lazy creation of the cursor, then current_index = self._key_indices[provider]
SelectRead(t) ==
    /\ RotatorOnly
    /\ th_pc[t] = "locked"
    /\ LET p == th_provider[t]
           created == IF pm_key_indices[p] = <<>>
                      THEN [pm_key_indices EXCEPT ![p] = <<0>>]
                      ELSE pm_key_indices
       IN  /\ pm_key_indices' = created
           /\ th_current' = [th_current EXCEPT ![t] = created[p][1]]
           /\ th_seen' = [th_seen EXCEPT ![t] = pm_updates[p]]
    /\ th_pc' = [th_pc EXCEPT ![t] = "read"]
    /\ UNCHANGED <<pm_lock, pm_updates, pm_history, th_provider, th_calls>>

\* self._key_indices[provider] = (current_index + 1) % total_keys
SelectWrite(t) ==
    /\ RotatorOnly
    /\ th_pc[t] = "read"
    /\ LET p == th_provider[t]
       IN  /\ pm_key_indices' =
                 [pm_key_indices EXCEPT ![p] = <<NextCursor(th_current[t], KeyCount(p))>>]
           /\ pm_updates' = [pm_updates EXCEPT ![p] = @ + 1]
    /\ th_pc' = [th_pc EXCEPT ![t] = "written"]
    /\ UNCHANGED <<pm_lock, pm_history, th_provider, th_current, th_seen, th_calls>>

\* return current_index: the lock is released as the with block is left
SelectReturn(t) ==
    /\ RotatorOnly
    /\ th_pc[t] = "written"
    /\ LET p == th_provider[t]
       IN  pm_history' =
              [pm_history EXCEPT
                 ![p] = Append(@, [index |-> th_current[t], seen |-> th_seen[t], by |-> t])]
    /\ pm_lock' = pm_lock \ {t}
    /\ th_pc' = [th_pc EXCEPT ![t] = "idle"]
    /\ th_calls' = [th_calls EXCEPT ![t] = @ + 1]
    /\ UNCHANGED <<pm_key_indices, pm_updates, th_provider, th_current, th_seen>>

(***************************************************************************)
(* The external-LLM configuration (get_external_llm_config())              *)
(*                                                                         *)
(* One configuration, read-only while requests run.  Parameter values are  *)
(* strings; "30" stands for the number 30 and "0" for the number 0.        *)
(***************************************************************************)
\* config["provider_config"]: model id -> provider
provider_config ==
    (<<"gpt-x">> :> "acme") @@ (<<"claude-b">> :> "bedrock") @@
    (<<"gem">> :> "gemini") @@ (<<"vx">> :> "vertex_ai") @@
    (<<"mine-m">> :> "mine") @@ (<<"bare-m">> :> "bare") @@
    (<<"acme", "gem">> :> "acme") @@ (<<"mine-raw">> :> "mine")

\* a route that is a string (the backend model id), and one that is a dict:
\* its "model" entry (<<>>: none) and its other entries
StrRoute(name) == [is_dict |-> FALSE, model |-> name, fields |-> <<>>]
DictRoute(name, fields) == [is_dict |-> TRUE, model |-> name, fields |-> fields]

\* config["model_routes"]: provider -> model id -> route
model_routes ==
    ("acme" :> (<<"gpt-x">> :> StrRoute(<<"model-1">>))) @@
    ("bedrock" :> (<<"claude-b">> :> StrRoute(<<"anthropic", "claude">>))) @@
    ("gemini" :> (<<"gem">> :> StrRoute(<<"gemini-pro">>))) @@
    ("vertex_ai" :> (<<"vx">> :> DictRoute(<<>>, ("vertex_location" :> "europe-west4"))))

\* config["custom_model_routes"]: provider -> its route configuration; the
\* entries other than api_key and base_url (the model table) are `models`,
\* and a missing api_key or base_url is ""
custom_model_routes ==
    ("mine" :> [api_key |-> "MINE_API_KEY", base_url |-> "http://mine",
                models |-> (<<"mine-m">> :> <<"real-m">>)]) @@
    ("bare" :> [api_key |-> "", base_url |-> "", models |-> <<>>])

\* config["model_keys"]: provider -> its "key*" entries, in order
model_keys ==
    ("acme" :> <<("API_KEY" :> "sk-acme-1"), ("API_KEY" :> "sk-acme-2")>>) @@
    ("bedrock" :> <<("AWS_KEY" :> "aws-secret-1")>>) @@
    ("gemini" :> <<("API_KEY" :> "sk-gemini-1")>>) @@
    ("vertex_ai" :> <<("PROJECT" :> "proj-1")>>) @@
    ("envy" :> <<("API_KEY" :> "ENVY_API_KEY") @@ ("ORG" :> "org-1") @@
                    ("BASE" :> "ENVY_BASE_URL"),
                 ("API_KEY" :> "sk-envy-2") @@ ("ORG" :> "org-2")>>)

\* config["provider_keys_configs"]: provider -> env_mapping and defaults
provider_keys_configs ==
    ("acme" :> [env_mapping |-> ("API_KEY" :> "api_key"),
                defaults |-> ("timeout" :> "30")]) @@
    ("bedrock" :> [env_mapping |-> ("AWS_KEY" :> "aws_access_key_id"),
                   defaults |-> ("aws_region_name" :> "us-east-1") @@
                                ("presence_penalty" :> "0.5")]) @@
    ("gemini" :> [env_mapping |-> ("API_KEY" :> "api_key"),
                  defaults |-> ("vertex_location" :> "us-central1")]) @@
    ("vertex_ai" :> [env_mapping |-> ("PROJECT" :> "vertex_project"),
                     defaults |-> ("vertex_location" :> "us-central1")]) @@
    ("envy" :> [env_mapping |-> ("API_KEY" :> "api_key") @@ ("ORG" :> "organization") @@
                                ("BASE" :> "api_base"),
                defaults |-> ("timeout" :> "30") @@ ("api_base" :> "http://envy-default")]) @@
    ("nokeys" :> [env_mapping |-> ("API_KEY" :> "api_key"),
                  defaults |-> ("timeout" :> "30")])

\* config["vertex_ai_credential"], "" when the configuration has none
vertex_ai_credential == "gcp-service-account"

\* the configuration values that are upper-case and contain '_'
\* (config_value.isupper() and "_" in config_value)
EnvVarLike == {"MINE_API_KEY", "ENVY_API_KEY", "ENVY_BASE_URL"}

(***************************************************************************)
(* ProviderAdapter: providers/base.py, generic.py, bedrock.py, gemini.py,  *)
(* vertex.py, custom.py                                                    *)
(***************************************************************************)
ValueError(msg) == Exc("ValueError", {}, msg)

\* BaseProvider._extract_keys
_extract_keys(provider_name) == Get(model_keys, provider_name, <<>>)

\* BaseProvider.get_credentials, for the key group _select_key picked:
\* the mapped entries of the key group, then the defaults not among them
get_credentials(provider_name, key_group) ==
    LET key_mapping_config == provider_keys_configs[provider_name]
        env_mapping == key_mapping_config.env_mapping
        present == DOMAIN env_mapping \cap DOMAIN key_group
        mapped_creds ==
            [param \in { env_mapping[v] : v \in present } |->
                key_group[CHOOSE v \in present : env_mapping[v] = param]]
    IN  Merge(key_mapping_config.defaults, mapped_creds)

\* GenericProvider.prepare_litellm_params: {**payload, **credentials}
GenericPrepare(payload, credentials) == Merge(payload, credentials)

\* BedrockProvider: litellm_params = credentials; litellm_params.update(payload)
BedrockMerge(payload, credentials) == Merge(credentials, payload)

\* a slip: top_k is missing from the list
unsupported_params_NoTopK ==
    {"min_p", "repetition_penalty", "top_a", "frequency_penalty", "presence_penalty"}

unsupported_params ==
    {"top_k", "min_p", "repetition_penalty", "top_a",
     "frequency_penalty", "presence_penalty"}

\* BedrockProvider.prepare_litellm_params
BedrockPrepare(payload, credentials) ==
    Without(BedrockMerge(payload, credentials), unsupported_params)

\* a slip: top_k is passed on whatever its value
ThinkingTail_KeepsTopK(final_params) == Merge(final_params, "thinking" :> "enabled")

\* the tail GeminiProvider and VertexAIProvider share: top_k = 0 is deleted
\* and `thinking` is forced
ThinkingTail(final_params) ==
    LET kept == IF Get(final_params, "top_k", NoValue) = "0"
                THEN Without(final_params, {"top_k"})
                ELSE final_params
    IN  Merge(kept, "thinking" :> "enabled")

\* GeminiProvider.prepare_litellm_params
GeminiPrepare(payload, credentials) == ThinkingTail(Merge(payload, credentials))

\* VertexAIProvider: the credentials with the route's location and the
\* service-account credentials put in
VertexCredentials(credentials, model_route) ==
    LET located == IF model_route.is_dict /\ "vertex_location" \in DOMAIN model_route.fields
                   THEN Merge(credentials,
                              "vertex_location" :> model_route.fields["vertex_location"])
                   ELSE credentials
    IN  Merge(located, "vertex_credentials" :> vertex_ai_credential)

\* VertexAIProvider.prepare_litellm_params, past the credential check
VertexPrepare(payload, credentials, model_route) ==
    ThinkingTail(Merge(payload, VertexCredentials(credentials, model_route)))

\* CustomRouteProvider._get_env_value
CustomEnvValue(config_value, environ) ==
    IF config_value # "" /\ config_value \in EnvVarLike
    THEN Get(environ, config_value, "")
    ELSE config_value

\* a slip: the custom route's model table is not consulted
CustomFinalModel_NoLookup(route_config, base_model_name) == base_model_name

\* final_model_name = self._custom_route_config.get(base_model_name, base_model_name)
CustomFinalModel(route_config, base_model_name) ==
    Get(route_config.models, base_model_name, base_model_name)

\* what CustomRouteProvider writes over the payload copy: api_key when the
\* configured one resolves, base_url when configured, and the model
CustomInjected(payload, route_config, environ) ==
    LET actual_api_key == CustomEnvValue(route_config.api_key, environ)
        key_part == IF route_config.api_key # "" /\ actual_api_key # ""
                    THEN "api_key" :> actual_api_key
                    ELSE <<>>
        url_part == IF route_config.base_url # ""
                    THEN "base_url" :> route_config.base_url
                    ELSE <<>>
        model_name_from_payload == Get(payload, "model", <<>>)
        base_model_name ==
            IF model_name_from_payload # <<>>
            THEN <<model_name_from_payload[Len(model_name_from_payload)]>>
            ELSE <<"">>
        final_model_name == CustomFinalModel(route_config, base_model_name)
    IN  Merge(Merge(key_part, url_part), "model" :> (<<"openai">> \o final_model_name))

\* CustomRouteProvider.prepare_litellm_params
CustomPrepare(payload, route_config, environ) ==
    Merge(payload, CustomInjected(payload, route_config, environ))

\* the fields an adapter of the given class puts into the parameters from
\* the configuration: the mapped credentials and defaults, and what the
\* class forces on top of them
Injected(kind, credentials, model_route) ==
    CASE kind = "gemini" -> Merge(credentials, "thinking" :> "enabled")
      [] kind = "vertex" ->
            Merge(VertexCredentials(credentials, model_route), "thinking" :> "enabled")
      [] OTHER -> credentials

\* prepare_litellm_params of the given class, past get_credentials
Prepare(kind, payload, credentials, model_route) ==
    CASE kind = "generic" -> GenericPrepare(payload, credentials)
      [] kind = "bedrock" -> BedrockPrepare(payload, credentials)
      [] kind = "gemini" -> GeminiPrepare(payload, credentials)
      [] kind = "vertex" -> VertexPrepare(payload, credentials, model_route)

Raised(e) == [exc |-> e, params |-> <<>>]
Returned(params) == [exc |-> NoExc, params |-> params]

\* the adapter classes and the provider names they are constructed for
AdapterInputs ==
    {<<"generic", "acme">>, <<"generic", "unknown">>, <<"bedrock", "bedrock">>,
     <<"gemini", "gemini">>, <<"vertex", "vertex_ai">>,
     <<"custom", "mine">>, <<"custom", "bare">>}

\* parameters a caller may put in the payload besides model and messages
CallerKeys ==
    {"api_key", "aws_access_key_id", "aws_region_name", "timeout",
     "base_url", "thinking", "top_k", "vertex_location"}

\* the numbers a caller may give for top_k: zero, a negative and a large one
TopKValues == {"0", "-1", "100000"}

CallerExtras ==
    { p \in UNION { [S -> {"caller-value"} \cup TopKValues] : S \in SUBSET CallerKeys } :
        \A k \in DOMAIN p : p[k] \in TopKValues => k = "top_k" }

\* model_route as the adapters see it: a string, or a dict of route fields
ModelRoutes ==
    {StrRoute(<<"m">>), DictRoute(<<>>, ("vertex_location" :> "europe-west4"))}

\* the constructor: BaseProvider.__init__(provider_name, config), or
\* CustomRouteProvider.__init__, which raises on a missing or empty route
\* configuration
AdapterConstruct ==
    /\ AdapterOnly
    /\ ad_pc = "new"
    /\ IF ad_kind = "custom"
       THEN LET route_config == Get(custom_model_routes, ad_provider,
                                    [api_key |-> "", base_url |-> "", models |-> <<>>])
            IN  IF route_config = [api_key |-> "", base_url |-> "", models |-> <<>>]
                THEN /\ ad_pc' = "failed"
                     /\ ad_result' = Raised(ValueError(<<"No configuration found under 'custom_model_routes' for provider", ad_provider>>))
                     /\ ad_keys' = ad_keys
                ELSE /\ ad_pc' = "ready"
                     /\ UNCHANGED <<ad_result, ad_keys>>
       ELSE /\ ad_pc' = "ready"
            /\ ad_keys' = _extract_keys(ad_provider)
            /\ ad_result' = ad_result
    /\ UNCHANGED <<ad_kind, ad_provider, ad_payload, ad_route, os_environ, ad_credentials>>

\* what one call of prepare_litellm_params can come to: the fields injected
\* and the result; _select_key's random.choice is the choice of key group
PrepareOutcomes ==
    IF ad_kind = "custom"
    THEN {[injected |-> CustomInjected(ad_payload, custom_model_routes[ad_provider], os_environ),
           result |-> Returned(CustomPrepare(ad_payload, custom_model_routes[ad_provider], os_environ))]}
    ELSE IF ad_keys = <<>>
    THEN {[injected |-> <<>>,
           result |-> Raised(ValueError(<<"No API keys configured for provider:", ad_provider>>))]}
    ELSE IF ad_provider \notin DOMAIN provider_keys_configs
    THEN {[injected |-> <<>>,
           result |-> Raised(ValueError(<<"No key mapping configuration for provider:", ad_provider>>))]}
    ELSE IF ad_kind = "vertex" /\ vertex_ai_credential = ""
    THEN {[injected |-> <<>>,
           result |-> Raised(ValueError(<<"Vertex AI credentials ('vertex_ai_credential') not found in the application configuration.">>))]}
    ELSE { LET credentials == get_credentials(ad_provider, ad_keys[i])
           IN  [injected |-> Injected(ad_kind, credentials, ad_route),
                result |-> Returned(Prepare(ad_kind, ad_payload, credentials, ad_route))]
           : i \in 1..Len(ad_keys) }

\* prepare_litellm_params(payload, model_route)
AdapterPrepare ==
    /\ AdapterOnly
    /\ ad_pc = "ready"
    /\ \E outcome \in PrepareOutcomes :
          /\ ad_credentials' = outcome.injected
          /\ ad_result' = outcome.result
          /\ ad_pc' = IF outcome.result.exc = NoExc THEN "done" ELSE "failed"
    /\ UNCHANGED <<ad_kind, ad_provider, ad_payload, ad_route, os_environ, ad_keys>>

(***************************************************************************)
(* ModelRouter (app/services/external_llm/router.py), the adapter factory  *)
(* (ProviderManager.get_provider) and ExternalLLMService.                  *)
(* _prepare_litellm_params, which strings them together                    *)
(***************************************************************************)
\* a slip: the part after the first '/' is tried before the exact id
get_provider_from_model_SuffixFirst(model_name) ==
    IF Len(model_name) > 1 /\ Tail(model_name) \in DOMAIN provider_config
    THEN provider_config[Tail(model_name)]
    ELSE IF model_name \in DOMAIN provider_config
    THEN provider_config[model_name]
    ELSE "unknown"

\* get_provider_from_model: the exact id, then the part after the first '/',
\* then "unknown"
get_provider_from_model(model_name) ==
    IF model_name \in DOMAIN provider_config
    THEN provider_config[model_name]
    ELSE IF Len(model_name) > 1 /\ Tail(model_name) \in DOMAIN provider_config
    THEN provider_config[Tail(model_name)]
    ELSE "unknown"

\* a slip: a custom route's entry is returned in place of its key
resolve_model_CustomValue(model_name) ==
    LET provider == get_provider_from_model(model_name)
    IN  IF /\ provider \in DOMAIN custom_model_routes
           /\ model_name \in DOMAIN custom_model_routes[provider].models
        THEN StrRoute(custom_model_routes[provider].models[model_name])
        ELSE IF provider \in DOMAIN model_routes
        THEN Get(model_routes[provider], model_name, StrRoute(model_name))
        ELSE StrRoute(model_name)

\* resolve_model: a custom route's own key, a standard route's entry, and
\* otherwise the model name itself
resolve_model(model_name) ==
    LET provider == get_provider_from_model(model_name)
    IN  IF /\ provider \in DOMAIN custom_model_routes
           /\ model_name \in DOMAIN custom_model_routes[provider].models
        THEN StrRoute(model_name)
        ELSE IF provider \in DOMAIN model_routes
        THEN Get(model_routes[provider], model_name, StrRoute(model_name))
        ELSE StrRoute(model_name)

\* ProviderManager._provider_map; every other name gets _default_provider
ProviderClassOf(provider_name) ==
    CASE provider_name = "bedrock" -> "bedrock"
      [] provider_name = "gemini" -> "gemini"
      [] OTHER -> "generic"

TypeError(msg) == Exc("TypeError", {}, msg)

EmptyRouteConfig == [api_key |-> "", base_url |-> "", models |-> <<>>]

\* ProviderManager.get_provider: the class instantiated and what its
\* constructor raises.  CustomRouteProvider takes (name, config, manager);
\* the other classes inherit BaseProvider.__init__(self, provider_name,
\* config) and are called with a third argument.
ProviderManager_get_provider(provider_name, custom_routes) ==
    IF provider_name \in DOMAIN custom_routes
    THEN [kind |-> "custom",
          exc |-> IF custom_routes[provider_name] = EmptyRouteConfig
                  THEN ValueError(<<"No configuration found under 'custom_model_routes' for provider", provider_name>>)
                  ELSE NoExc]
    ELSE [kind |-> ProviderClassOf(provider_name),
          exc |-> TypeError(<<"BaseProvider.__init__() takes 3 positional arguments but 4 were given">>)]

\* get_provider(provider_name, config) for the configuration above
get_provider(provider_name) ==
    ProviderManager_get_provider(provider_name, custom_model_routes)

\* base_payload of _prepare_litellm_params
BasePayload(payload, litellm_model) ==
    LET named == Merge(payload, ("model" :> litellm_model) @@ ("drop_params" :> "True"))
    IN  IF Get(named, "stream", "False") = "True" /\ "stream_options" \notin DOMAIN named
        THEN Merge(named, "stream_options" :> "include_usage")
        ELSE named

\* the model ids requests come with
RequestModels ==
    {<<"gpt-x">>, <<"acme", "gpt-x">>, <<"a", "b", "gpt-x">>, <<"nope">>,
     <<"x", "nope">>, <<"mine-m">>, <<"openai", "mine-m">>, <<"bare-m">>,
     <<"vx">>, <<"claude-b">>, <<"acme", "gem">>, <<"x", "gem">>,
     <<"mine-raw">>, <<"vendor", "mine-raw">>}

RouteExtras ==
    { [k \in S |-> IF k = "stream" THEN sv ELSE "caller-value"] :
        S \in SUBSET {"messages", "stream", "stream_options", "api_key"},
        sv \in {"True", "False"} }

RoutePayloads ==
    RouteExtras \cup
    { Merge(extras, "model" :> m) : extras \in RouteExtras, m \in RequestModels \cup {<<>>} }

\* if not model_name or "messages" not in payload: raise ServiceError
PrepareValidate ==
    /\ RouteOnly
    /\ rt_pc = "start"
    /\ IF Get(rt_payload, "model", <<>>) = <<>> \/ "messages" \notin DOMAIN rt_payload
       THEN /\ rt_pc' = "failed"
            /\ rt_result' = Raised(ServiceError(<<"Request body must contain 'model' and 'messages'">>,
                                                "VALIDATION_REQUEST_ERROR"))
       ELSE /\ rt_pc' = "valid"
            /\ rt_result' = rt_result
    /\ UNCHANGED <<rt_payload, rt_provider_name, rt_model_route, rt_litellm_model>>

\* provider_name, model_route, base_model_name and litellm_model
PrepareRoute ==
    /\ RouteOnly
    /\ rt_pc = "valid"
    /\ LET model_name == rt_payload["model"]
           model_route == resolve_model(model_name)
           base_model_name ==
               IF model_route.is_dict
               THEN (IF model_route.model # <<>> THEN model_route.model ELSE model_name)
               ELSE model_route.model
       IN  /\ rt_provider_name' = get_provider_from_model(model_name)
           /\ rt_model_route' = model_route
           /\ rt_litellm_model' = <<get_provider_from_model(model_name)>> \o base_model_name
    /\ rt_pc' = "routed"
    /\ UNCHANGED <<rt_payload, rt_result>>

\* provider_handler = self.provider_manager.get_provider(provider_name, config)
PrepareGetHandler ==
    /\ RouteOnly
    /\ rt_pc = "routed"
    /\ LET handler == get_provider(rt_provider_name)
       IN  IF handler.exc = NoExc
           THEN /\ rt_pc' = "handler"
                /\ rt_result' = rt_result
           ELSE /\ rt_pc' = "failed"
                /\ rt_result' = Raised(handler.exc)
    /\ UNCHANGED <<rt_payload, rt_provider_name, rt_model_route, rt_litellm_model>>

\* base_payload, then provider_handler.prepare_litellm_params(base_payload,
\* model_route); the only handlers constructed are CustomRouteProviders
PrepareDelegate ==
    /\ RouteOnly
    /\ rt_pc = "handler"
    /\ rt_result' = Returned(CustomPrepare(BasePayload(rt_payload, rt_litellm_model),
                                           custom_model_routes[rt_provider_name],
                                           os_environ))
    /\ rt_pc' = "done"
    /\ UNCHANGED <<rt_payload, rt_provider_name, rt_model_route, rt_litellm_model>>

(***************************************************************************)
(* ProviderManager (provider_manager.py) as one caller drives it:          *)
(* get_provider(provider_name, config) and get_provider_config(provider,   *)
(* config), with the process environment changing between the calls.       *)
(* The configuration's custom_model_routes table is any of CustomTables;   *)
(* its model_keys and provider_keys_configs are the ones above.            *)
(***************************************************************************)
MaxManagerCalls == 3

\* the provider names the caller asks about
ManagerProviders == {"acme", "envy", "nokeys", "bedrock", "gemini", "mine"}

\* custom_model_routes tables: each of the names is absent, declared with a
\* route configuration, or declared with an empty block
CustomNames == {"mine", "bedrock"}
CustomTables ==
    UNION { [S -> {EmptyRouteConfig, custom_model_routes["mine"]}] : S \in SUBSET CustomNames }

\* os.environ as the manager's configuration refers to it
ManagerEnvirons ==
    { Merge(k, b) :
        k \in {<<>>, ("ENVY_API_KEY" :> ""), ("ENVY_API_KEY" :> "sk-env-1"),
               ("ENVY_API_KEY" :> "sk-env-2")},
        b \in {<<>>, ("ENVY_BASE_URL" :> "http://envy-env")} }

\* a slip: the configured value is used as it stands, never looked up
_get_env_value_Literal(config_value, environ) == config_value

\* ProviderManager._get_env_value: os.getenv of a value that looks like a
\* variable name ("" when it is unset or empty), any other value itself
_get_env_value(config_value, environ) ==
    IF config_value # "" /\ config_value \in EnvVarLike
    THEN Get(environ, config_value, "")
    ELSE config_value

\* ProviderManager._get_next_key_index, run by a single caller: the index
\* returned and self._key_indices after it
_get_next_key_index(key_indices, provider, total_keys) ==
    LET current_index == IF key_indices[provider] = <<>> THEN 0
                         ELSE key_indices[provider][1]
    IN  [index |-> current_index,
         key_indices |-> [key_indices EXCEPT
                            ![provider] = <<NextCursor(current_index, total_keys)>>]]

\* the loop over env_mapping: a field is mapped when the key group has a
\* non-empty value for it that _get_env_value resolves to a non-empty one
MappedFields(env_mapping, provider_creds, environ) ==
    LET resolving == { v \in DOMAIN env_mapping \cap DOMAIN provider_creds :
                         /\ provider_creds[v] # ""
                         /\ _get_env_value(provider_creds[v], environ) # "" }
    IN  [param \in { env_mapping[v] : v \in resolving } |->
            _get_env_value(provider_creds[CHOOSE v \in resolving : env_mapping[v] = param],
                           environ)]

\* ProviderManager._get_mapped_keys: the map returned, self._key_indices
\* after the call and the index selected (<<>>: the call returned before
\* selecting)
_get_mapped_keys(provider, key_indices, environ) ==
    IF \/ provider \notin DOMAIN provider_keys_configs
       \/ Get(model_keys, provider, <<>>) = <<>>
    THEN [mapped |-> <<>>, key_indices |-> key_indices, selected |-> <<>>]
    ELSE LET key_config == provider_keys_configs[provider]
             available_keys == model_keys[provider]
             next == _get_next_key_index(key_indices, provider, Len(available_keys))
             provider_creds == available_keys[next.index + 1]
             mapped_keys == MappedFields(key_config.env_mapping, provider_creds, environ)
         IN  [mapped |-> IF provider_creds = <<>> THEN <<>>
                         ELSE Merge(key_config.defaults, mapped_keys),
              key_indices |-> next.key_indices,
              selected |-> <<next.index>>]

\* provider_manager.get_provider(provider_name, config)
GetProvider(provider_name) ==
    /\ ManagerOnly
    /\ mg_calls < MaxManagerCalls
    /\ mg_op' = "get_provider"
    /\ mg_provider' = provider_name
    /\ mg_handler' = ProviderManager_get_provider(provider_name, mg_custom)
    /\ mg_calls' = mg_calls + 1
    /\ UNCHANGED <<mg_custom, mg_key_indices, mg_mapped, mg_selected, os_environ,
                   mg_total_keys>>

\* provider_manager.get_provider_config(provider, config)
GetProviderConfig(provider) ==
    /\ ManagerOnly
    /\ mg_calls < MaxManagerCalls
    /\ LET out == _get_mapped_keys(provider, mg_key_indices, os_environ)
       IN  /\ mg_mapped' = Returned(out.mapped)
           /\ mg_key_indices' = out.key_indices
           /\ mg_selected' = out.selected
    /\ mg_op' = "get_provider_config"
    /\ mg_provider' = provider
    /\ mg_calls' = mg_calls + 1
    /\ UNCHANGED <<mg_custom, mg_handler, os_environ, mg_total_keys>>

\* the largest total_keys a direct call passes
MaxTotalKeys == 3

\* self._get_next_key_index(provider, total_keys), called with a total_keys
\* that may differ from the one of the call before (the configuration passed
\* to _get_mapped_keys is an argument of each call)
NextKeyIndex(provider, total_keys) ==
    /\ ManagerOnly
    /\ mg_calls < MaxManagerCalls
    /\ LET next == _get_next_key_index(mg_key_indices, provider, total_keys)
       IN  /\ mg_selected' = <<next.index>>
           /\ mg_key_indices' = next.key_indices
    /\ mg_total_keys' = total_keys
    /\ mg_op' = "_get_next_key_index"
    /\ mg_provider' = provider
    /\ mg_calls' = mg_calls + 1
    /\ UNCHANGED <<mg_custom, mg_handler, mg_mapped, os_environ>>

\* the process environment is changed between two calls
EnvChange(environ) ==
    /\ ManagerOnly
    /\ environ # os_environ
    /\ os_environ' = environ
    /\ UNCHANGED mg_vars

(***************************************************************************)
(* ConfigManager (app/config.py), the ModelRouter that reads it            *)
(* (app/router.py) and the two routing calls of chat_completions           *)
(* (app/app.py).                                                           *)
(*                                                                         *)
(* The handlers are coroutines on one event loop: between the two routing  *)
(* calls of a request no other handler runs, but the configuration file    *)
(* is written by its editor at any moment.                                 *)
(***************************************************************************)
MaxMtime == 3

\* what the configuration file can hold; "bad" is text that does not load
Contents == {"A", "B", "bad"}
Loads(content) == content # "bad"

\* AppConfig(**yaml.safe_load(f)) for a content that loads
AppConfig(content) ==
    CASE content = "A" ->
            [model_config_mapping |-> (<<"gpt-x">> :> "acme") @@ (<<"gem">> :> "gemini"),
             model_routes |-> ("acme" :> (<<"gpt-x">> :> <<"model-1">>))]
      [] content = "B" ->
            [model_config_mapping |-> (<<"gpt-x">> :> "other"),
             model_routes |-> ("other" :> (<<"gpt-x">> :> <<"model-9">>))]

YAMLError == Exc("YAMLError", {}, <<"while parsing a block mapping">>)

\* the ConfigManager's fields
Manager(config, file_mtime, lru) ==
    [config |-> config, file_mtime |-> file_mtime, lru |-> lru]

\* _should_reload, for a manager that has loaded once and a file that exists
_should_reload(cm) == fs_mtime > cm.file_mtime

\* _load_config: _file_mtime is recorded, then the file is read and parsed
\* and self.config replaced; a content that does not load raises after
\* _file_mtime was recorded
_load_config(cm) ==
    IF Loads(fs_content)
    THEN [cm |-> Manager(AppConfig(fs_content), fs_mtime, cm.lru), exc |-> NoExc]
    ELSE [cm |-> Manager(cm.config, fs_mtime, cm.lru), exc |-> YAMLError]

\* _ensure_config_loaded
_ensure_config_loaded(cm) ==
    IF _should_reload(cm) THEN _load_config(cm) ELSE [cm |-> cm, exc |-> NoExc]

\* the body of _get_model_route_cached, reading the given config
RouteIn(config, model_name) ==
    IF model_name \notin DOMAIN config.model_config_mapping
    THEN model_name
    ELSE LET provider == config.model_config_mapping[model_name]
             provider_routes == Get(config.model_routes, provider, <<>>)
         IN  IF model_name \in DOMAIN provider_routes
             THEN <<provider>> \o provider_routes[model_name]
             ELSE <<provider>> \o model_name

\* get_model_route: the manager afterwards, the route returned (value) or
\* the exception raised.  config_hash is the hash of the two maps of
\* self.config, here the maps themselves.
get_model_route(cm, model_name) ==
    LET ensured == _ensure_config_loaded(cm)
        now == ensured.cm
        config_hash == now.config
        hits == { e \in now.lru : e.model_name = model_name /\ e.config_hash = config_hash }
        value == IF hits # {}
                 THEN (CHOOSE e \in hits : TRUE).value
                 ELSE RouteIn(now.config, model_name)
        entry == [model_name |-> model_name, config_hash |-> config_hash, value |-> value]
    IN  IF ensured.exc # NoExc
        THEN [cm |-> now, exc |-> ensured.exc, value |-> <<>>]
        ELSE [cm |-> Manager(now.config, now.file_mtime, now.lru \cup {entry}),
              exc |-> NoExc, value |-> value]

\* str.strip() on the model ids requests come with
Strip(model_id) ==
    CASE model_id = <<" gpt-x ">> -> <<"gpt-x">>
      [] model_id = <<"  ">> -> <<>>
      [] OTHER -> model_id

\* ModelRouter.resolve_model (app/router.py)
ModelRouter_resolve_model(cm, model_id) ==
    IF Strip(model_id) = <<>>
    THEN [cm |-> cm, exc |-> EmptyModelIdError, value |-> <<>>]
    ELSE LET got == get_model_route(cm, Strip(model_id))
         IN  IF got.exc = NoExc /\ got.value = Strip(model_id)
             THEN [cm |-> got.cm, exc |-> ModelNotConfiguredError(Strip(model_id)),
                   value |-> <<>>]
             ELSE got

\* ModelRouter.get_provider_from_model (app/router.py)
ModelRouter_get_provider_from_model(cm, model_id) ==
    LET resolved == ModelRouter_resolve_model(cm, model_id)
    IN  IF resolved.exc # NoExc
        THEN [cm |-> resolved.cm, exc |-> resolved.exc, value |-> ""]
        ELSE IF Len(resolved.value) > 1
        THEN [cm |-> resolved.cm, exc |-> NoExc, value |-> resolved.value[1]]
        ELSE [cm |-> resolved.cm, exc |-> ProviderParseError(model_id), value |-> ""]

CfgModels == {<<"gpt-x">>, <<" gpt-x ">>, <<"gem">>, <<"nope">>, <<"  ">>, <<>>}

TheManager == Manager(cm_config, cm_file_mtime, cm_lru)

SetManager(cm) ==
    /\ cm_config' = cm.config
    /\ cm_file_mtime' = cm.file_mtime
    /\ cm_lru' = cm.lru

\* the configuration file is rewritten
FileChange(content) ==
    /\ CfgOnly
    /\ fs_mtime < MaxMtime
    /\ fs_content' = content
    /\ fs_mtime' = fs_mtime + 1
    /\ UNCHANGED <<cm_config, cm_file_mtime, cm_lru,
                   cr_model, cr_pc, cr_litellm_model, cr_provider, cr_exc>>

\* POST /config/reload: reload_config() clears the lru cache and loads;
\* the endpoint swallows what loading raises
ReloadEndpoint ==
    /\ CfgOnly
    /\ cr_pc # "resolved"
    /\ SetManager(_load_config(Manager(cm_config, cm_file_mtime, {})).cm)
    /\ UNCHANGED <<fs_content, fs_mtime,
                   cr_model, cr_pc, cr_litellm_model, cr_provider, cr_exc>>

\* chat_completions: litellm_model = resolve_model(request.model)
RequestResolve(model_id) ==
    /\ CfgOnly
    /\ cr_pc # "resolved"
    /\ LET resolved == ModelRouter_resolve_model(TheManager, model_id)
       IN  /\ SetManager(resolved.cm)
           /\ cr_model' = model_id
           /\ cr_litellm_model' = resolved.value
           /\ cr_provider' = ""
           /\ cr_exc' = resolved.exc
           /\ cr_pc' = IF resolved.exc = NoExc THEN "resolved" ELSE "failed"
    /\ UNCHANGED <<fs_content, fs_mtime>>

\* chat_completions: provider = get_provider_from_model(request.model)
RequestProvider ==
    /\ CfgOnly
    /\ cr_pc = "resolved"
    /\ LET got == ModelRouter_get_provider_from_model(TheManager, cr_model)
       IN  /\ SetManager(got.cm)
           /\ cr_provider' = got.value
           /\ cr_exc' = got.exc
           /\ cr_pc' = IF got.exc = NoExc THEN "done" ELSE "failed"
    /\ UNCHANGED <<fs_content, fs_mtime, cr_model, cr_litellm_model>>

(***************************************************************************)
(* ConfigManager called from more than one thread                          *)
(*                                                                         *)
(* ConfigCache and _load_config take locks, the lookups do not: between    *)
(* two statements of a lookup another thread may reload the configuration. *)
(* One lookup is followed statement by statement; what other threads do    *)
(* (a reload_config(), an access that finds the file changed) happens as   *)
(* whole calls in between.                                                 *)
(***************************************************************************)
LookupModels == {<<"gpt-x">>, <<"gem">>}
LookupProviders == {"acme", "other"}

\* cache_key = "available_models" / f"provider_models_{provider}"
CacheKey(op, provider) ==
    IF op = "get_available_models" THEN <<"available_models">>
    ELSE <<"provider_models", provider>>

\* dict(self.config.model_config_mapping) / self.config.model_routes.get(provider, {})
Computed(config, key) ==
    IF key = <<"available_models">> THEN config.model_config_mapping
    ELSE Get(config.model_routes, key[2], <<>>)

\* self._cache.clear() at the end of a load that succeeded
CacheAfterLoad(cache, loaded) == IF loaded THEN <<>> ELSE cache

\* get_model_route, first statements: _ensure_config_loaded() and
\* config_hash = str(hash(str(...mapping) + str(...routes)))
LookupRouteBegin(model_name) ==
    /\ LookupOnly
    /\ lk_pc \in {"idle", "returned", "failed"}
    /\ LET ensured == _ensure_config_loaded(TheManager)
       IN  /\ SetManager(ensured.cm)
           /\ cm_cache' = CacheAfterLoad(cm_cache, _should_reload(TheManager) /\ ensured.exc = NoExc)
           /\ lk_pc' = IF ensured.exc = NoExc THEN "hashed" ELSE "failed"
           /\ lk_config_hash' = ensured.cm.config
    /\ lk_op' = "get_model_route"
    /\ lk_model' = model_name
    /\ UNCHANGED <<fs_content, fs_mtime, lk_provider, lk_result, lk_value>>

\* get_model_route, last statement: self._get_model_route_cached(model_name,
\* config_hash); on a miss its body reads self.config as it is by then
LookupRouteCached ==
    /\ LookupOnly
    /\ lk_pc = "hashed"
    /\ LET hits == { e \in cm_lru : e.model_name = lk_model /\ e.config_hash = lk_config_hash }
           value == IF hits # {} THEN (CHOOSE e \in hits : TRUE).value
                    ELSE RouteIn(cm_config, lk_model)
           entry == [model_name |-> lk_model, config_hash |-> lk_config_hash, value |-> value]
       IN  /\ cm_lru' = cm_lru \cup {entry}
           /\ lk_value' = value
    /\ lk_pc' = "returned"
    /\ UNCHANGED <<fs_content, fs_mtime, cm_config, cm_file_mtime, cm_cache,
                   lk_op, lk_model, lk_provider, lk_config_hash, lk_result>>

\* get_available_models / get_provider_models up to `result = ...`:
\* _ensure_config_loaded(), self._cache.get(cache_key), and on a miss the
\* value read from self.config
LookupCacheBegin(op, provider) ==
    /\ LookupOnly
    /\ lk_pc \in {"idle", "returned", "failed"}
    /\ LET ensured == _ensure_config_loaded(TheManager)
           cache == CacheAfterLoad(cm_cache, _should_reload(TheManager) /\ ensured.exc = NoExc)
           cache_key == CacheKey(op, provider)
       IN  /\ SetManager(ensured.cm)
           /\ cm_cache' = cache
           /\ IF ensured.exc # NoExc
              THEN /\ lk_pc' = "failed"
                   /\ UNCHANGED <<lk_result, lk_value>>
              ELSE IF cache_key \in DOMAIN cache
              THEN /\ lk_pc' = "returned"
                   /\ lk_value' = cache[cache_key]
                   /\ lk_result' = lk_result
              ELSE /\ lk_pc' = "missed"
                   /\ lk_result' = Computed(ensured.cm.config, cache_key)
                   /\ lk_value' = lk_value
    /\ lk_op' = op
    /\ lk_provider' = provider
    /\ UNCHANGED <<fs_content, fs_mtime, lk_model, lk_config_hash>>

\* self._cache.set(cache_key, result); return result
LookupCacheStore ==
    /\ LookupOnly
    /\ lk_pc = "missed"
    /\ cm_cache' = Merge(cm_cache, CacheKey(lk_op, lk_provider) :> lk_result)
    /\ lk_value' = lk_result
    /\ lk_pc' = "returned"
    /\ UNCHANGED <<fs_content, fs_mtime, cm_config, cm_file_mtime, cm_lru,
                   lk_op, lk_model, lk_provider, lk_config_hash, lk_result>>

\* another thread calls reload_config(): cache_clear(), then _load_config()
ReloadByOther ==
    /\ LookupOnly
    /\ LET loaded == _load_config(Manager(cm_config, cm_file_mtime, {}))
       IN  /\ SetManager(loaded.cm)
           /\ cm_cache' = CacheAfterLoad(cm_cache, loaded.exc = NoExc)
    /\ UNCHANGED <<fs_content, fs_mtime, lk_pc, lk_op, lk_model, lk_provider,
                   lk_config_hash, lk_result, lk_value>>

\* another thread calls get_config(): _ensure_config_loaded()
AccessByOther ==
    /\ LookupOnly
    /\ _should_reload(TheManager)
    /\ LET ensured == _ensure_config_loaded(TheManager)
       IN  /\ SetManager(ensured.cm)
           /\ cm_cache' = CacheAfterLoad(cm_cache, ensured.exc = NoExc)
    /\ UNCHANGED <<fs_content, fs_mtime, lk_pc, lk_op, lk_model, lk_provider,
                   lk_config_hash, lk_result, lk_value>>

(***************************************************************************)
(* Specifications: one per component, the others held at rest              *)
(***************************************************************************)
StreamIdle ==
    /\ st_variant = "service"
    /\ st_chunks = <<>>
    /\ st_exc = NoExc
    /\ st_pulled = 0
    /\ st_pc = "try"
    /\ st_frames = <<>>

ErrIdle ==
    /\ cl_in = NoExc
    /\ cl_out = NoValue
    /\ rq_variant = "service"
    /\ rq_pc = "parse"
    /\ rq_exc = NoExc
    /\ rq_response = NoValue

RotatorIdle ==
    /\ pm_key_indices = [p \in Providers |-> <<>>]
    /\ pm_lock = {}
    /\ pm_updates = [p \in Providers |-> 0]
    /\ pm_history = [p \in Providers |-> <<>>]
    /\ th_pc = [t \in Threads |-> "idle"]
    /\ th_provider = [t \in Threads |-> NoValue]
    /\ th_current = [t \in Threads |-> 0]
    /\ th_seen = [t \in Threads |-> 0]
    /\ th_calls = [t \in Threads |-> 0]

Environs == {<<>>, ("MINE_API_KEY" :> "sk-mine-env")}

AdapterAtRest ==
    /\ ad_kind = "generic"
    /\ ad_provider = "acme"
    /\ ad_payload = <<>>
    /\ ad_route = StrRoute(<<>>)
    /\ ad_pc = "new"
    /\ ad_keys = <<>>
    /\ ad_credentials = <<>>
    /\ ad_result = Returned(<<>>)

AdapterIdle ==
    /\ AdapterAtRest
    /\ os_environ = <<>>

RouteIdle ==
    /\ rt_payload = <<>>
    /\ rt_pc = "start"
    /\ rt_provider_name = ""
    /\ rt_model_route = StrRoute(<<>>)
    /\ rt_litellm_model = <<>>
    /\ rt_result = Returned(<<>>)

CfgIdle ==
    /\ fs_content = "A"
    /\ fs_mtime = 1
    /\ cm_config = AppConfig("A")
    /\ cm_file_mtime = 1
    /\ cm_lru = {}
    /\ cr_model = <<>>
    /\ cr_pc = "idle"
    /\ cr_litellm_model = <<>>
    /\ cr_provider = ""
    /\ cr_exc = NoExc

ManagerIdle ==
    /\ mg_custom = custom_model_routes
    /\ mg_key_indices = [p \in ManagerProviders |-> <<>>]
    /\ mg_op = "none"
    /\ mg_provider = ""
    /\ mg_handler = [kind |-> "generic", exc |-> NoExc]
    /\ mg_mapped = Returned(<<>>)
    /\ mg_selected = <<>>
    /\ mg_calls = 0
    /\ mg_total_keys = 0

LookupIdle ==
    /\ cm_cache = <<>>
    /\ lk_pc = "idle"
    /\ lk_op = "none"
    /\ lk_model = <<>>
    /\ lk_provider = ""
    /\ lk_config_hash = AppConfig("A")
    /\ lk_result = <<>>
    /\ lk_value = <<>>

ConsumerIdle ==
    /\ sc_consumer = "reading"
    /\ sc_raised = NoExc
    /\ sc_upstream = "open"

InitStream ==
    /\ st_variant \in {"service", "app"}
    /\ st_chunks \in SeqsUpTo({ Chunk(i) : i \in ChunkIds }, MaxChunks)
    /\ st_exc \in StreamExcs \cup {NoExc}
    /\ st_pulled = 0
    /\ st_pc = "try"
    /\ st_frames = <<>>
    /\ ErrIdle /\ RotatorIdle /\ AdapterIdle /\ RouteIdle /\ CfgIdle /\ ManagerIdle /\ ConsumerIdle
    /\ LookupIdle

NextStream ==
    \/ StreamNextChunk
    \/ StreamUpstreamEnd
    \/ StreamUpstreamRaise
    \/ StreamUpstreamRaiseBase
    \/ StreamAfterError
    \/ StreamClose

SpecStream == InitStream /\ [][NextStream]_vars

\* the stream with a consumer that may stop reading at any point
NextStreamCancel ==
    \/ StreamNextChunk
    \/ StreamUpstreamEnd
    \/ StreamUpstreamRaise
    \/ StreamUpstreamRaiseBase
    \/ StreamAfterError
    \/ StreamClose
    \/ ConsumerCancelAwaiting
    \/ ConsumerCloseAtYield
    \/ ConsumerCloseAtSentinel

SpecStreamCancel == InitStream /\ [][NextStreamCancel]_vars

InitErr ==
    /\ cl_in = NoExc
    /\ cl_out = NoValue
    /\ rq_variant \in {"service", "app"}
    /\ rq_pc = "parse"
    /\ rq_exc = NoExc
    /\ rq_response = NoValue
    /\ StreamIdle /\ RotatorIdle /\ AdapterIdle /\ RouteIdle /\ CfgIdle /\ ManagerIdle /\ ConsumerIdle
    /\ LookupIdle

NextErr ==
    \/ RequestStageOk
    \/ RequestStageFails
    \/ Classify

SpecErr == InitErr /\ [][NextErr]_vars

InitRotator ==
    /\ RotatorIdle
    /\ StreamIdle /\ ErrIdle /\ AdapterIdle /\ RouteIdle /\ CfgIdle /\ ManagerIdle /\ ConsumerIdle
    /\ LookupIdle

NextRotator ==
    \/ \E t \in Threads, p \in Providers : SelectAcquire(t, p)
    \/ \E t \in Threads : SelectRead(t)
    \/ \E t \in Threads : SelectWrite(t)
    \/ \E t \in Threads : SelectReturn(t)

SpecRotator == InitRotator /\ [][NextRotator]_vars

InitAdapter ==
    /\ \E input \in AdapterInputs :
          /\ ad_kind = input[1]
          /\ ad_provider = input[2]
          /\ \E extras \in CallerExtras :
                ad_payload = Merge(extras, ("model" :> <<input[2], "m">>) @@ ("messages" :> <<"msgs">>))
    /\ ad_route \in ModelRoutes
    /\ os_environ \in Environs
    /\ ad_pc = "new"
    /\ ad_keys = <<>>
    /\ ad_credentials = <<>>
    /\ ad_result = Returned(<<>>)
    /\ StreamIdle /\ ErrIdle /\ RotatorIdle /\ RouteIdle /\ CfgIdle /\ ManagerIdle /\ ConsumerIdle
    /\ LookupIdle

NextAdapter ==
    \/ AdapterConstruct
    \/ AdapterPrepare

SpecAdapter == InitAdapter /\ [][NextAdapter]_vars

InitRoute ==
    /\ rt_payload \in RoutePayloads
    /\ rt_pc = "start"
    /\ rt_provider_name = ""
    /\ rt_model_route = StrRoute(<<>>)
    /\ rt_litellm_model = <<>>
    /\ rt_result = Returned(<<>>)
    /\ AdapterAtRest
    /\ os_environ \in Environs
    /\ StreamIdle /\ ErrIdle /\ RotatorIdle /\ CfgIdle /\ ManagerIdle /\ ConsumerIdle
    /\ LookupIdle

NextRoute ==
    \/ PrepareValidate
    \/ PrepareRoute
    \/ PrepareGetHandler
    \/ PrepareDelegate

SpecRoute == InitRoute /\ [][NextRoute]_vars

\* the manager was constructed, and loaded the file, when the module was
\* imported
InitCfg ==
    /\ CfgIdle
    /\ StreamIdle /\ ErrIdle /\ RotatorIdle /\ AdapterIdle /\ RouteIdle /\ ManagerIdle /\ ConsumerIdle
    /\ LookupIdle

NextCfg ==
    \/ \E content \in Contents : FileChange(content)
    \/ ReloadEndpoint
    \/ \E model_id \in CfgModels : RequestResolve(model_id)
    \/ RequestProvider

SpecCfg == InitCfg /\ [][NextCfg]_vars

\* the ConfigManager with a lookup that other threads' reloads may overlap
NextCfgThreads ==
    \/ \E content \in Contents : FileChange(content)
    \/ \E model_name \in LookupModels : LookupRouteBegin(model_name)
    \/ LookupRouteCached
    \/ \E op \in {"get_available_models", "get_provider_models"},
          provider \in LookupProviders : LookupCacheBegin(op, provider)
    \/ LookupCacheStore
    \/ ReloadByOther
    \/ AccessByOther

SpecCfgThreads == InitCfg /\ [][NextCfgThreads]_vars

\* the same calls when none overlaps another (the handlers of one event loop)
NextCfgCalls ==
    \/ \E content \in Contents : FileChange(content)
    \/ \E model_name \in LookupModels : LookupRouteBegin(model_name)
    \/ LookupRouteCached
    \/ \E op \in {"get_available_models", "get_provider_models"},
          provider \in LookupProviders : LookupCacheBegin(op, provider)
    \/ LookupCacheStore
    \/ lk_pc \notin {"hashed", "missed"} /\ ReloadByOther
    \/ lk_pc \notin {"hashed", "missed"} /\ AccessByOther

SpecCfgCalls == InitCfg /\ [][NextCfgCalls]_vars

\* a ProviderManager just constructed (_key_indices = {}), given one
\* configuration for all its calls
InitManager ==
    /\ mg_custom \in CustomTables
    /\ mg_key_indices = [p \in ManagerProviders |-> <<>>]
    /\ mg_op = "none"
    /\ mg_provider = ""
    /\ mg_handler = [kind |-> "generic", exc |-> NoExc]
    /\ mg_mapped = Returned(<<>>)
    /\ mg_selected = <<>>
    /\ mg_calls = 0
    /\ mg_total_keys = 0
    /\ AdapterAtRest
    /\ os_environ \in ManagerEnvirons
    /\ StreamIdle /\ ErrIdle /\ RotatorIdle /\ RouteIdle /\ CfgIdle /\ ConsumerIdle
    /\ LookupIdle

NextManager ==
    \/ \E provider_name \in ManagerProviders : GetProvider(provider_name)
    \/ \E provider \in ManagerProviders : GetProviderConfig(provider)
    \/ \E environ \in ManagerEnvirons : EnvChange(environ)

SpecManager == InitManager /\ [][NextManager]_vars

\* the rotator's cursor under direct calls whose total_keys varies
InitCursor ==
    /\ ManagerIdle
    /\ StreamIdle /\ ErrIdle /\ RotatorIdle /\ AdapterIdle /\ RouteIdle /\ CfgIdle
    /\ ConsumerIdle
    /\ LookupIdle

NextCursorCall ==
    \E provider \in ManagerProviders, total_keys \in 1..MaxTotalKeys :
        NextKeyIndex(provider, total_keys)

SpecCursor == InitCursor /\ [][NextCursorCall]_vars

(***************************************************************************)
(* Claims about the StreamTranslator (checked under SpecStream)            *)
(***************************************************************************)
DonePositions(frames) == { i \in 1..Len(frames) : frames[i] = Done }
DataPositions(frames) == { i \in 1..Len(frames) : frames[i].kind = "data" }
ErrorPositions(frames) == { i \in 1..Len(frames) : frames[i].kind = "error" }

\* C1: the sentinel 'data: [DONE]' is never emitted twice and nothing is
\* emitted after it; and once a stream has been consumed to its end - with
\* zero, one or many chunks, with or without an exception raised by the
\* upstream sequence - it has been emitted exactly once, as the last frame.
C1_SentinelOnceAndLast ==
    /\ Cardinality(DonePositions(st_frames)) <= 1
    /\ \A i \in DonePositions(st_frames) : i = Len(st_frames)
    /\ st_pc \in {"finally", "closed"} =>
          /\ DonePositions(st_frames) = {Len(st_frames)}
          /\ Len(st_frames) >= 1

\* C1 witness: a stream of two chunks whose upstream then raised has been
\* consumed to its end.
C1_Witness ==
    /\ st_pc = "closed"
    /\ Len(st_chunks) = MaxChunks
    /\ st_pulled = Len(st_chunks)
    /\ IsInstance(st_exc, "Exception")
    /\ Cardinality(ErrorPositions(st_frames)) = 1

\* C5 (as claimed): when the upstream sequence raised an exception after j
\* chunks, the frames are the j data frames, then one error frame carrying
\* the classifier's error code and message for that exception, then the
\* sentinel.
C5_ErrorFrameCarriesClassification ==
    (st_pc = "closed" /\ IsInstance(st_exc, "Exception")) =>
        LET j == Len(st_chunks)
            triple == map_litellm_error_to_http(st_exc)
        IN  /\ Len(st_frames) = j + 2
            /\ \A i \in 1..j : st_frames[i] = DataFrame(st_chunks[i], OriginalModel)
            /\ st_frames[j + 1].kind = "error"
            /\ st_frames[j + 1].code = triple[2]
            /\ st_frames[j + 1].message = triple[3]
            /\ st_frames[j + 2] = Done

(***************************************************************************)
(* Claims about the ErrorClassifier and error responses (under SpecErr)    *)
(***************************************************************************)
\* The categories the claim lists, in its precedence order, with the status
\* it gives each.
ClaimedUpstream ==
    << <<"BadRequestError", 400>>, <<"AuthenticationError", 401>>,
       <<"NotFoundError", 404>>, <<"RateLimitError", 429>>,
       <<"ContextWindowExceededError", 400>>, <<"APIConnectionError", 502>>,
       <<"APITimeoutError", 504>>, <<"ServiceUnavailableError", 503>>,
       <<"InternalServerError", 500>> >>

\* the claimed categories an exception belongs to (by class or by class name)
ClaimedOf(e) ==
    { i \in 1..Len(ClaimedUpstream) :
        ClaimedUpstream[i][1] \in e.bases \/ e.name = ClaimedUpstream[i][1] }

IsNotConfigured(e) == "ValueError" \in e.bases /\ Contains(e.msg, TokNotConfigured)
IsEmptyModelId(e) ==
    "ValueError" \in e.bases /\ ~Contains(e.msg, TokNotConfigured)
        /\ Contains(e.msg, TokEmptyModelId)
IsLocalValidation(e) == IsNotConfigured(e) \/ IsEmptyModelId(e)
IsProviderParse(e) ==
    "ValueError" \in e.bases /\ Contains(e.msg, TokCannotFromModel)
                             /\ Contains(e.msg, TokParseProvider)

\* the part of the claim the code agrees with: local validation errors
\* first, then the nine upstream categories in order, each with its status;
\* distinct categories have distinct codes
ClaimedTableHolds(e, out) ==
    /\ IsNotConfigured(e) => out = <<400, "MODEL_NOT_CONFIGURED", e.msg>>
    /\ IsEmptyModelId(e) => out = <<400, "INVALID_MODEL_ID", e.msg>>
    /\ (~IsLocalValidation(e) /\ ~IsProviderParse(e) /\ ClaimedOf(e) # {}) =>
          LET first == CHOOSE i \in ClaimedOf(e) : \A j \in ClaimedOf(e) : i <= j
          IN  /\ out[1] = ClaimedUpstream[first][2]
              /\ out[2] \notin {"INTERNAL_ERROR", "MODEL_NOT_CONFIGURED", "INVALID_MODEL_ID"}
              /\ \A e2 \in Exceptions :
                    (~IsLocalValidation(e2) /\ ClaimedOf(e2) # {}) =>
                        LET first2 == CHOOSE i \in ClaimedOf(e2) : \A j \in ClaimedOf(e2) : i <= j
                        IN  (map_litellm_error_to_http(e2)[2] = out[2]) <=> (first2 = first)

\* the exceptions the claim sends to the generic fallback
ClaimedFallback(e) == ~IsLocalValidation(e) /\ ClaimedOf(e) = {}

\* the further categories the classifier knows besides the claimed ones
IsFurtherCategory(e) ==
    \/ IsProviderParse(e)
    \/ "APIError" \in e.bases \/ e.name = "APIError"
    \/ "ProxyError" \in e.bases
    \/ "HTTPException" \in e.bases
    \/ "RequestValidationError" \in e.bases

\* C7 (as claimed): ... and every other exception is 500 INTERNAL_ERROR.
C7_EveryOtherIsInternalError ==
    cl_in # NoExc =>
        /\ ClaimedTableHolds(cl_in, cl_out)
        /\ ClaimedFallback(cl_in) => (cl_out[1] = 500 /\ cl_out[2] = "INTERNAL_ERROR")

\* C7 (amended): the classifier answers local validation errors first (400
\* MODEL_NOT_CONFIGURED / INVALID_MODEL_ID), then the nine upstream
\* categories in the claimed order with the claimed statuses, each with a
\* code of its own; an exception in none of these and in none of the
\* classifier's further categories (provider-parse ValueError, APIError,
\* ProxyError, HTTPException, RequestValidationError) is 500 INTERNAL_ERROR,
\* and one in a further category is never INTERNAL_ERROR.
C7_ClassifierTable ==
    cl_in # NoExc =>
        /\ ClaimedTableHolds(cl_in, cl_out)
        /\ (ClaimedFallback(cl_in) /\ ~IsFurtherCategory(cl_in)) =>
              (cl_out[1] = 500 /\ cl_out[2] = "INTERNAL_ERROR")
        /\ (ClaimedFallback(cl_in) /\ IsFurtherCategory(cl_in)) =>
              cl_out[2] # "INTERNAL_ERROR"

\* C7 witness: an upstream rate-limit exception has been classified as 429.
C7_Witness ==
    /\ cl_in.name = "RateLimitError"
    /\ cl_out[1] = 429
    /\ cl_out[2] = "RATE_LIMIT_EXCEEDED"

\* C8 (as claimed): the status of a failed non-streaming request is the
\* status the classifier assigns to the exception originally raised, and the
\* body is the error envelope.
C8_StatusIsClassifierStatus ==
    rq_pc = "failed" =>
        /\ rq_response.status = map_litellm_error_to_http(rq_exc)[1]
        /\ rq_response.error # NoValue

\* C9 (as claimed), streamed error frame: for an exception the classifier
\* does not recognise, the frame's message does not contain the exception's
\* own text.
C9_NoExceptionTextInFrame ==
    \A i \in 1..Len(st_frames) :
        (/\ st_frames[i].kind = "error"
         /\ map_litellm_error_to_http(st_exc)[2] = "INTERNAL_ERROR"
         /\ Str(st_exc) # <<>>)
            => ~ContainsText(st_frames[i].message, Str(st_exc))


(***************************************************************************)
(* Claims about the CredentialRotator (checked under SpecRotator)          *)
(*                                                                         *)
(* pm_history[p] lists the selections for provider p in the order in which *)
(* they returned: the index returned, the number of cursor updates the     *)
(* selection had observed when it read the cursor, and the calling thread. *)
(***************************************************************************)
CountOf(history, first, last, k) ==
    Cardinality({ i \in first..last : history[i].index = k })

Floor(n, k) == n \div k
Ceil(n, k) == (n + k - 1) \div k

\* C2: over any N consecutive selections for a provider with K credential
\* sets, sequential or concurrent, every index in 0..K-1 is returned
\* floor(N/K) or ceil(N/K) times; the first selection after the lazy
\* creation of the cursor returns index 0; with K = 1 every selection returns
\* index 0; and no index outside 0..K-1 is ever returned.
C2_RoundRobinFair ==
    \A p \in Providers :
        LET h == pm_history[p]
            K == KeyCount(p)
        IN  /\ \A i \in 1..Len(h) : h[i].index \in 0..(K - 1)
            /\ Len(h) >= 1 => h[1].index = 0
            /\ K = 1 => \A i \in 1..Len(h) : h[i].index = 0
            /\ \A first \in 1..Len(h) : \A last \in first..Len(h) :
                  \A k \in 0..(K - 1) :
                      LET N == last - first + 1
                      IN  CountOf(h, first, last, k) \in {Floor(N, K), Ceil(N, K)}

\* C2 witness: four selections for the provider with three credential sets
\* have returned, made by both threads, so that the cursor has wrapped.
C2_Witness ==
    /\ Len(pm_history["tri"]) = 4
    /\ pm_history["tri"][4].index = 0
    /\ { pm_history["tri"][i].by : i \in 1..4 } = Threads

\* C3: the read of a provider's cursor and its increment are one critical
\* section: at most one thread is inside it; no two selections for the same
\* provider have observed the same state of the cursor; and for K >= 2 two
\* selections that follow each other for a provider, with none between
\* them, never return the same index.
C3_ReadIncrementAtomic ==
    /\ Cardinality({ t \in Threads : th_pc[t] # "idle" }) <= 1
    /\ \A p \in Providers :
          LET h == pm_history[p]
          IN  /\ \A i, j \in 1..Len(h) : i # j => h[i].seen # h[j].seen
              /\ KeyCount(p) >= 2 =>
                    \A i \in 1..(Len(h) - 1) : h[i].index # h[i + 1].index

\* C3 witness: two different threads have made consecutive selections for the
\* same provider with two credential sets, returning indices 0 and then 1.
C3_Witness ==
    /\ Len(pm_history["acme"]) >= 2
    /\ pm_history["acme"][1].by # pm_history["acme"][2].by
    /\ pm_history["acme"][1].index = 0
    /\ pm_history["acme"][2].index = 1


(***************************************************************************)
(* Claims about the ProviderAdapters (checked under SpecAdapter)           *)
(***************************************************************************)
\* C6: for every adapter and every payload, whenever the caller's payload
\* has a key of the same name as a field the adapter injects (a mapped
\* credential, a configured default or an override), the final parameter
\* map carries the injected value, not the caller's.
C6_InjectedWinsOverCaller ==
    ad_pc = "done" =>
        \A k \in DOMAIN ad_credentials \cap DOMAIN ad_payload :
            /\ k \in DOMAIN ad_result.params
            /\ ad_result.params[k] = ad_credentials[k]

\* C6, for the adapters other than the field-filtering one
C6_InjectedWinsExceptBedrock ==
    ad_kind # "bedrock" => C6_InjectedWinsOverCaller


(***************************************************************************)
(* Claims about model resolution (checked under SpecRoute)                 *)
(***************************************************************************)
\* the model id has no entry in the model-to-provider map, neither the id
\* itself nor the part after its first '/'
Unconfigured(model_name) ==
    /\ model_name # <<>>
    /\ model_name \notin DOMAIN provider_config
    /\ ~(Len(model_name) > 1 /\ Tail(model_name) \in DOMAIN provider_config)

\* C4: for a model id with no entry in the model-to-provider map, model
\* resolution fails with a ModelNotConfigured error: past resolution the
\* request has failed with that error, and no provider, backend model id or
\* final 'provider/model' string has been derived from the raw id.
C4_UnconfiguredModelFails ==
    (/\ Unconfigured(Get(rt_payload, "model", <<>>))
     /\ "messages" \in DOMAIN rt_payload
     /\ rt_pc \notin {"start", "valid"})
    => /\ rt_pc = "failed"
       /\ IsNotConfigured(rt_result.exc)
       /\ rt_provider_name = ""
       /\ rt_litellm_model = <<>>

(***************************************************************************)
(* Claims about configuration reload (checked under SpecCfg)               *)
(***************************************************************************)
\* C10: a request performs all of its configuration reads against one
\* configuration: the litellm_model and the provider a completed request
\* holds are those of one and the same loadable content of the file.
C10_RequestReadsOneSnapshot ==
    cr_pc = "done" =>
        \E content \in { c \in Contents : Loads(c) } :
            /\ cr_litellm_model = RouteIn(AppConfig(content), Strip(cr_model))
            /\ cr_provider = RouteIn(AppConfig(content), Strip(cr_model))[1]

(***************************************************************************)
(* Claims about the adapter factory and the credential selection of the    *)
(* ProviderManager (checked under SpecManager)                             *)
(***************************************************************************)
\* C11: get_provider returns a custom-route adapter whenever the provider
\* name is in the custom-route table, also when a strategy is registered
\* for that name; for every other name it returns the strategy registered
\* for it, and the generic adapter when none is registered.
C11_FactoryDispatch ==
    mg_op = "get_provider" =>
        IF mg_provider \in DOMAIN mg_custom
        THEN /\ mg_handler.kind = "custom"
             /\ mg_custom[mg_provider] # EmptyRouteConfig => mg_handler.exc = NoExc
        ELSE /\ mg_handler.exc = NoExc
             /\ mg_handler.kind = (IF mg_provider \in {"bedrock", "gemini"}
                                   THEN mg_provider ELSE "generic")

\* C12: get_provider fails in one case only, a provider declared in the
\* custom-route table with an absent or empty configuration block; for
\* every other provider name and configuration it returns an adapter.
C12_FactoryFailsOnlyOnEmptyCustomBlock ==
    mg_op = "get_provider" =>
        (mg_handler.exc # NoExc <=>
            (mg_provider \in DOMAIN mg_custom /\ mg_custom[mg_provider] = EmptyRouteConfig))

\* the other half of C12, which the code keeps: a get_provider call leaves
\* the rotation cursors as they were
C12_FactoryLeavesRotationState ==
    [][mg_op' = "get_provider" /\ mg_calls' # mg_calls =>
          mg_key_indices' = mg_key_indices]_vars

\* C13: selecting credentials for a provider with no key entries fails with
\* an error; it does not return a credential map, empty or partial.
C13_NoKeyEntriesFails ==
    (mg_op = "get_provider_config" /\ Get(model_keys, mg_provider, <<>>) = <<>>) =>
        mg_mapped.exc # NoExc

\* the last part of C13, which the code keeps: a selection for a provider
\* with no key entries leaves the rotation cursors as they were
C13_NoKeyEntriesLeavesCursor ==
    [][(mg_op' = "get_provider_config" /\ mg_calls' # mg_calls
          /\ Get(model_keys, mg_provider', <<>>) = <<>>) =>
          mg_key_indices' = mg_key_indices]_vars

\* what a field of a credential set resolves to in an environment: the
\* variable's value for a value that is all upper-case with an underscore
\* ("" when it is unset or empty), the value itself otherwise
ResolvesTo(config_value, environ) ==
    IF config_value \in EnvVarLike THEN Get(environ, config_value, "") ELSE config_value

\* the credential set a selection picked, and the provider's key mapping
SelectedCreds == model_keys[mg_provider][mg_selected[1] + 1]
SelectedConfig == provider_keys_configs[mg_provider]

\* a selection that picked a credential set has just returned
JustSelected ==
    /\ mg_op' = "get_provider_config"
    /\ mg_calls' # mg_calls
    /\ mg_selected' # <<>>

\* C20 as stated: every selection resolves the fields of the selected
\* credential set against the environment of that moment; the selection
\* succeeds, a field that resolves is mapped to the resolved value, and a
\* field whose variable is missing or empty is left out of the map.
C20_UnresolvedFieldLeftOut ==
    [][JustSelected =>
         /\ mg_mapped'.exc = NoExc
         /\ \A v \in DOMAIN SelectedConfig'.env_mapping \cap DOMAIN SelectedCreds' :
               LET param == SelectedConfig'.env_mapping[v]
                   value == ResolvesTo(SelectedCreds'[v], os_environ)
               IN  IF value # ""
                   THEN param \in DOMAIN mg_mapped'.params /\ mg_mapped'.params[param] = value
                   ELSE param \notin DOMAIN mg_mapped'.params]_vars

\* C20, amended: as above, except that a field whose variable is missing or
\* empty is not mapped from the credential set: it carries the provider's
\* configured default when the defaults name the same parameter, and is
\* left out of the map otherwise.
C20_UnresolvedFieldFallsToDefault ==
    [][JustSelected =>
         /\ mg_mapped'.exc = NoExc
         /\ \A v \in DOMAIN SelectedConfig'.env_mapping \cap DOMAIN SelectedCreds' :
               LET param == SelectedConfig'.env_mapping[v]
                   value == ResolvesTo(SelectedCreds'[v], os_environ)
                   defaults == SelectedConfig'.defaults
               IN  IF value # ""
                   THEN param \in DOMAIN mg_mapped'.params /\ mg_mapped'.params[param] = value
                   ELSE IF param \in DOMAIN defaults
                   THEN param \in DOMAIN mg_mapped'.params
                        /\ mg_mapped'.params[param] = defaults[param]
                   ELSE param \notin DOMAIN mg_mapped'.params]_vars

\* the last of several selections, made while neither variable is set: the
\* secret is left out, the endpoint carries the default, and the literal
\* field is mapped
C20_Witness ==
    /\ mg_op = "get_provider_config"
    /\ mg_provider = "envy"
    /\ mg_selected = <<0>>
    /\ mg_calls = MaxManagerCalls
    /\ os_environ = <<>>
    /\ mg_mapped.exc = NoExc
    /\ "api_key" \notin DOMAIN mg_mapped.params
    /\ Get(mg_mapped.params, "api_base", "") = "http://envy-default"
    /\ Get(mg_mapped.params, "organization", "") = "org-1"

(***************************************************************************)
(* Claims about the ModelRouter and parameter preparation (checked under   *)
(* SpecRoute)                                                              *)
(***************************************************************************)
\* the request has been routed: provider_name, model_route and
\* litellm_model are computed
Routed == rt_provider_name # ""

\* C14: the provider lookup tries the exact model id first and the part
\* after the first '/' only then: an id with an entry gets that entry's
\* provider, also when its suffix has an entry for another provider, and
\* an id without an entry whose suffix has one gets the suffix's provider.
C14_ExactBeforeSuffix ==
    Routed =>
        LET model_name == rt_payload["model"]
        IN  /\ model_name \in DOMAIN provider_config =>
                  rt_provider_name = provider_config[model_name]
            /\ (/\ model_name \notin DOMAIN provider_config
                /\ Len(model_name) > 1
                /\ Tail(model_name) \in DOMAIN provider_config) =>
                  rt_provider_name = provider_config[Tail(model_name)]

\* a routed request whose id and whose suffix both have entries, for
\* different providers
C14_Witness ==
    /\ Routed
    /\ rt_payload["model"] = <<"acme", "gem">>
    /\ provider_config[<<"gem">>] = "gemini"
    /\ rt_provider_name = "acme"

\* the route table the claim C15 reads for a provider: the custom route's
\* model table when the provider has a custom route, its standard routes
\* otherwise
ClaimedRouteTable(provider) ==
    IF provider \in DOMAIN custom_model_routes
    THEN [k \in DOMAIN custom_model_routes[provider].models |->
             StrRoute(custom_model_routes[provider].models[k])]
    ELSE Get(model_routes, provider, <<>>)

MergedForLocationAware == Merge(ad_payload, ad_credentials)

\* C16: the location-aware adapters (GeminiProvider, VertexAIProvider) leave
\* top_k out of the final parameters when its value after merging is 0, and
\* pass every other value of it, negative or large, unchanged; a zero is
\* never replaced by another value.
C16_ZeroTopKOmitted ==
    (ad_pc = "done" /\ ad_kind \in {"gemini", "vertex"}) =>
        IF "top_k" \in DOMAIN MergedForLocationAware
           /\ MergedForLocationAware["top_k"] # "0"
        THEN /\ "top_k" \in DOMAIN ad_result.params
             /\ ad_result.params["top_k"] = MergedForLocationAware["top_k"]
        ELSE "top_k" \notin DOMAIN ad_result.params

\* a location-aware adapter has prepared a payload whose top_k is 0
C16_Witness ==
    /\ ad_pc = "done"
    /\ ad_kind \in {"gemini", "vertex"}
    /\ Get(ad_payload, "top_k", NoValue) = "0"
    /\ "top_k" \notin DOMAIN ad_result.params

\* the keys the claim C18 lists as unsupported by Bedrock
BedrockDenylist ==
    {"top_k", "min_p", "repetition_penalty", "top_a",
     "frequency_penalty", "presence_penalty"}

\* the values given for a key by the caller's payload and by the configured
\* credentials and defaults
SuppliedValues(k) ==
    { ad_payload[j] : j \in DOMAIN ad_payload \cap {k} } \cup
    { ad_credentials[j] : j \in DOMAIN ad_credentials \cap {k} }

\* C18: the final parameters of the Bedrock adapter contain no key of the
\* denylist, whether the key came from the caller's payload or from the
\* configured credentials and defaults, and contain every other key that
\* either of them supplied, with a value supplied for it.
C18_BedrockDropsDenylist ==
    (ad_pc = "done" /\ ad_kind = "bedrock") =>
        /\ DOMAIN ad_result.params =
              (DOMAIN ad_payload \cup DOMAIN ad_credentials) \ BedrockDenylist
        /\ \A k \in DOMAIN ad_result.params : ad_result.params[k] \in SuppliedValues(k)

\* the Bedrock adapter has prepared a payload with top_k while the
\* configured defaults carry presence_penalty
C18_Witness ==
    /\ ad_pc = "done"
    /\ ad_kind = "bedrock"
    /\ "top_k" \in DOMAIN ad_payload
    /\ "presence_penalty" \in DOMAIN ad_credentials
    /\ DOMAIN ad_result.params \cap {"top_k", "presence_penalty"} = {}
    /\ "aws_region_name" \in DOMAIN ad_result.params

\* the route carries a location override
HasLocationOverride(model_route) ==
    model_route.is_dict /\ "vertex_location" \in DOMAIN model_route.fields

\* C19: when the adapter is the location-aware class that the factory
\* selects for its provider, the location in the final parameters is the
\* route's override when the route carries one, and the provider's
\* configured default when it does not.
C19_RouteLocationOverridesDefault ==
    (/\ ad_pc = "done"
     /\ ad_kind \in {"gemini", "vertex"}
     /\ ad_kind = ProviderClassOf(ad_provider)) =>
        Get(ad_result.params, "vertex_location", NoValue) =
            (IF HasLocationOverride(ad_route)
             THEN ad_route.fields["vertex_location"]
             ELSE provider_keys_configs[ad_provider].defaults["vertex_location"])

(***************************************************************************)
(* Claims about requests served by a custom route (checked under           *)
(* SpecRoute)                                                              *)
(***************************************************************************)
\* a model id with its prefix segments stripped
Stripped(model_name) == <<model_name[Len(model_name)]>>

StreamSettled ==
    /\ sc_consumer # "reading"
    /\ st_pc \in {"closed", "ignored_exit"}

\* C21: when the consumer is cancelled or closes the stream while the
\* translator is suspended (awaiting the next upstream chunk, or after
\* yielding a frame), the terminal sentinel is still the last frame, exactly
\* once, and no further error is raised.
C21_SentinelOnCancelOrClose ==
    StreamSettled =>
        /\ Len(st_frames) >= 1
        /\ st_frames[Len(st_frames)] = Done
        /\ Cardinality({ i \in 1..Len(st_frames) : st_frames[i] = Done }) = 1
        /\ sc_raised = NoExc

\* C25: when the caller disconnects mid-stream and the task is cancelled, the
\* upstream sequence is closed or aborted rather than left open.
C25_CancelReachesUpstream ==
    (sc_consumer = "cancelled" /\ st_pc \in {"closed", "ignored_exit"}
        /\ st_pulled < Len(st_chunks))
    => sc_upstream # "open"

\* (auxiliary to C25) after the consumer has stopped, the translator pulls no
\* further chunk
C25_NoFurtherPull ==
    [][sc_consumer # "reading" => st_pulled' = st_pulled]_vars

\* C22: the data frames are the upstream chunks pulled so far, in the same
\* order, one per chunk, none dropped, duplicated or reordered; the model
\* field of every data frame is the caller-facing model id, never the
\* backend's.
C22_DataFramesFollowChunks ==
    /\ DataPositions(st_frames) = 1..st_pulled
    /\ \A i \in 1..st_pulled :
          /\ st_frames[i].id = st_chunks[i].id
          /\ st_frames[i].model = OriginalModel
          /\ st_frames[i].model # st_chunks[i].model

\* C22 witness: a stream of two different chunks has been consumed to its end.
C22_Witness ==
    /\ st_pc = "closed"
    /\ st_chunks = <<Chunk("c2"), Chunk("c1")>>
    /\ st_pulled = 2
    /\ st_exc = NoExc
    /\ Len(st_frames) = 3

(***************************************************************************)
(* Which credential set an adapter merges                                  *)
(***************************************************************************)

\* C23: the credential set merged by the generic, field-filtering and
\* location-aware adapters is the one chosen by the rotator's round-robin
\* cursor: the first preparation for a provider uses set 0 of the
\* configuration's order.
C23_AdapterUsesRotatorCursor ==
    (ad_pc = "done" /\ ad_kind # "custom" /\ Len(ad_keys) >= 1) =>
        ad_credentials =
            Injected(ad_kind, get_credentials(ad_provider, ad_keys[1]), ad_route)

\* (auxiliary to C23) a completed preparation has advanced the provider's
\* cursor by one
C23_PreparationAdvancesCursor ==
    (ad_pc = "done" /\ ad_kind # "custom" /\ Len(ad_keys) >= 1
        /\ ad_provider \in DOMAIN pm_key_indices)
    => pm_key_indices[ad_provider] = <<1 % Len(ad_keys)>>

(***************************************************************************)
(* What reaches the error classifier                                       *)
(***************************************************************************)

\* the exceptions of the backend call and of router, rotator and adapter
BackendOrTypedExcs(variant) == StageExcs(variant, "prepare") \cup StageExcs(variant, "call")

\* C24: an exception raised by the backend call, or a typed error from the
\* router, the rotator or an adapter, reaches the error classifier as the
\* same exception, type and message unchanged: the response is the one the
\* classifier gives for the exception that was raised.
C24_ErrorReachesClassifierUnchanged ==
    (rq_pc = "failed" /\ rq_exc \in BackendOrTypedExcs(rq_variant)) =>
        rq_response = IF rq_variant = "service" THEN handle_service_error(rq_exc)
                      ELSE handle_proxy_error(rq_exc)

(***************************************************************************)
(* The rotator's index when total_keys varies                              *)
(***************************************************************************)

\* C26: every index returned by _get_next_key_index(provider, total_keys)
\* satisfies 0 <= index < total_keys, for every sequence of calls in which
\* total_keys may differ between calls.
C26_IndexInRange ==
    mg_op = "_get_next_key_index" =>
        /\ 0 <= mg_selected[1]
        /\ mg_selected[1] < mg_total_keys

(***************************************************************************)
(* Further claims about the ConfigManager                                  *)
(***************************************************************************)

\* C29: when a (re)load of the configuration fails, the ConfigManager's state
\* is unchanged: the previous configuration stays in effect and the recorded
\* file modification time is not advanced, so that the next access detects
\* the change again.
C29_FailedLoadLeavesState ==
    (cr_pc = "failed" /\ cr_exc = YAMLError /\ ~Loads(fs_content)) =>
        /\ cm_file_mtime < fs_mtime
        /\ _should_reload(TheManager)

\* (auxiliary to C29) while the file holds a content that does not load, no
\* step replaces the loaded configuration
C29_FailedLoadKeepsConfig ==
    [][~Loads(fs_content') => cm_config' = cm_config]_vars

\* C27: get_model_route(m) returns the route determined by the configuration
\* that is loaded when the call returns, under any interleaving of lookups
\* with file-change reloads and manual reloads.
C27_RouteOfLoadedConfig ==
    [][(lk_pc = "hashed" /\ lk_pc' = "returned")
        => lk_value' = RouteIn(cm_config', lk_model')]_vars

\* (auxiliary to C27) no entry of the LRU route cache holds a route computed
\* from a configuration other than the one its key names
C27_LruEntriesMatchTheirKey ==
    \A e \in cm_lru : e.value = RouteIn(e.config_hash, e.model_name)

\* C28: a value computed from an old configuration is never stored in the
\* ConfigCache after a reload's cache clear: every cached value is the one
\* the loaded configuration gives, so that get_available_models and
\* get_provider_models return the mappings of the newly loaded configuration.
C28_CacheHoldsLoadedConfig ==
    \A key \in DOMAIN cm_cache : cm_cache[key] = Computed(cm_config, key)

(***************************************************************************)
(* Whose api_key and base_url a custom route sends                         *)
(***************************************************************************)

\* C30: for a custom-route provider configured with an api_key and a
\* base_url, the api_key and base_url of the final parameters never come from
\* the caller's payload: base_url is the configured one, and an api_key, when
\* there is one, is the configured key as resolved, also when the configured
\* key is an environment-variable reference that fails to resolve.
C30_CustomCredentialsIgnoreCaller ==
    (/\ ad_pc = "done"
     /\ ad_kind = "custom"
     /\ custom_model_routes[ad_provider].api_key # ""
     /\ custom_model_routes[ad_provider].base_url # "")
    => LET route_config == custom_model_routes[ad_provider]
           final_params == ad_result.params
       IN  /\ "base_url" \in DOMAIN final_params
           /\ final_params["base_url"] = route_config.base_url
           /\ "api_key" \in DOMAIN final_params =>
                 final_params["api_key"] = CustomEnvValue(route_config.api_key, os_environ)

\* (auxiliary to C30) the base_url of the final parameters is the configured
\* one whatever the caller sent
C30_BaseUrlIsConfigured ==
    (/\ ad_pc = "done"
     /\ ad_kind = "custom"
     /\ custom_model_routes[ad_provider].base_url # "")
    => Get(ad_result.params, "base_url", "") = custom_model_routes[ad_provider].base_url

====
